---- MODULE Spec2Model ----
(***************************************************************************)
(* Pizza survey infographic: the data processor (column resolver and the   *)
(* reducers of processData) and the application shell that calls it.       *)
(*                                                                         *)
(* JavaScript strings are TLA+ strings (Len, SubSeq and \o act on them).   *)
(* A raw row is the sequence of its [k |-> column, v |-> value] entries in *)
(* Object.keys order.  Row values are strings; a number in a row (the      *)
(* sample generator's rating) is written as its ToString form, which is    *)
(* what parseFloat reads.                                                  *)
(***************************************************************************)
EXTENDS Integers, Sequences, FiniteSets, TLC

VARIABLES
  row, field, found,           \* column resolver: findColumn(row, field)
  order, docField, docFound,   \* README row, its column order, one lookup
  rawData, processed,          \* a reducer's input rows and its result
  page,                        \* the page: which main.js, browser time zone
  uploadSection,               \* style.display of #upload-section
  infographicSection,          \* #infographic: class, content, charts drawn
  modal,                       \* style.display of #pizza-info-modal
  currentProcessedData, currentPizzaInfo, pendingRawData,
  timers,                      \* pending setTimeout and animation callbacks
  errors,                      \* the error messages displayed, newest first
  events,                      \* user events handled so far
  currentSlide, autoplayInterval,  \* module variables of commentsCarousel.js
  sections,                    \* the #comments-section elements made so far
  carousels,                   \* the carousels rendered: cards, dots, closure
  intervals,                   \* the setInterval timers that are alive
  hovering                     \* the pointer is inside #comments-section

colVars  == <<row, field, found>>
docVars  == <<order, docField, docFound>>
dataVars == <<rawData, processed>>
appVars  == <<page, uploadSection, infographicSection, modal,
              currentProcessedData, currentPizzaInfo, pendingRawData, timers,
              errors, events>>
carVars  == <<currentSlide, autoplayInterval, sections, carousels, intervals,
              hovering>>
vars     == <<row, field, found, order, docField, docFound, rawData, processed,
              page, uploadSection, infographicSection, modal,
              currentProcessedData, currentPizzaInfo, pendingRawData, timers,
              errors, events, currentSlide, autoplayInterval, sections,
              carousels, intervals, hovering>>

(***************************************************************************)
(* const x = e; ...  : e is evaluated once, before the code that uses x    *)
(***************************************************************************)
const(e, body(_)) == CHOOSE y \in {body(x) : x \in {e}} : TRUE

(***************************************************************************)
(* String primitives                                                       *)
(***************************************************************************)
UpperAlpha == "ABCDEFGHIJKLMNOPQRSTUVWXYZ"
LowerAlpha == "abcdefghijklmnopqrstuvwxyz"

\* The characters of s at positions a..b (1-based), cut to the string.
substring(s, a, b) == SubSeq(s, a, IF b > Len(s) THEN Len(s) ELSE b)

\* String.prototype.charAt: the character at position i, "" beyond the end.
charAt(s, i) == substring(s, i, i)

\* String.prototype.toLowerCase on one character (ASCII letters).
LowerChar ==
  [c \in {charAt(UpperAlpha, i) : i \in 1..26} |->
     charAt(LowerAlpha, CHOOSE i \in 1..26 : charAt(UpperAlpha, i) = c)]

\* String.prototype.toLowerCase: each character lower-cased, the string taken
\* by halves.
RECURSIVE toLowerCase(_)
toLowerCase(s) ==
  IF Len(s) = 0 THEN ""
  ELSE IF Len(s) = 1
  THEN (IF s \in DOMAIN LowerChar THEN LowerChar[s] ELSE s)
  ELSE toLowerCase(SubSeq(s, 1, Len(s) \div 2))
         \o toLowerCase(SubSeq(s, Len(s) \div 2 + 1, Len(s)))

\* String.prototype.includes: k occurs in s as a substring ("" always does).
includes(s, k) ==
  \E i \in 1..(Len(s) - Len(k) + 1) : SubSeq(s, i, i + Len(k) - 1) = k

(***************************************************************************)
(* Column resolver                                                         *)
(***************************************************************************)
Fields ==
  <<"rating", "pizzaType", "feeling", "orderAgain", "tier", "oneWord",
    "coldPizza", "comments", "timestamp">>

COLUMN_MAPPINGS ==
  [f \in {Fields[i] : i \in 1..Len(Fields)} |->
    CASE f = "rating" ->
           <<"Rate the overall taste of the pizza:", "Rate this pizza (1-10)",
             "Rating", "Score", "rate", "rating">>
      [] f = "pizzaType" ->
           <<"What pizza did you try?", "Which pizza did you try?",
             "Pizza Type", "Pizza", "pizza type", "Which pizza">>
      [] f = "feeling" ->
           <<"How do you feel after eating this pizza",
             "How do you feel after eating?", "Feeling", "How do you feel",
             "feeling">>
      [] f = "orderAgain" ->
           <<"Would you want this pizza again", "Would you order again?",
             "Order Again", "Would order again", "order again">>
      [] f = "tier" ->
           <<"Where does this land", "Pizza tier ranking", "Tier", "Ranking",
             "tier ranking">>
      [] f = "oneWord" ->
           <<"Describe this pizza in ONE word", "One word to describe",
             "One Word", "Describe", "one word">>
      [] f = "coldPizza" ->
           <<"eat this pizza cold", "Cold pizza preference", "Cold Pizza",
             "cold pizza">>
      [] f = "comments" ->
           <<"Elaborate", "Additional comments", "Comments", "Feedback",
             "comments">>
      [] f = "timestamp" ->
           <<"Timestamp", "Date", "Submitted", "timestamp">>]

\* The value findColumn hands back: a column name, or null.
null == [isNull |-> TRUE, name |-> ""]
column(name) == [isNull |-> FALSE, name |-> name]

\* Object.keys(row): the row's column names in iteration order.
ObjectKeys(r) == [j \in 1..Len(r) |-> r[j].k]

\* The arrow function of keys.find: the alias and the column name overlap as
\* substrings, in either direction, both lower-cased.
keyMatches(k, mapping) ==
  LET lk == toLowerCase(k)
      lm == toLowerCase(mapping)
  IN  includes(lk, lm) \/ includes(lm, lk)

\* Mutant of keysFind: the last matching key instead of the first.
keysFindLast(keys, mapping) ==
  IF \E j \in 1..Len(keys) : keyMatches(keys[j], mapping)
  THEN CHOOSE j \in 1..Len(keys) :
         /\ keyMatches(keys[j], mapping)
         /\ \A h \in (j + 1)..Len(keys) : ~keyMatches(keys[h], mapping)
  ELSE 0

\* keys.find(...): the index of the first matching key, 0 for undefined.
keysFind(keys, mapping) ==
  IF \E j \in 1..Len(keys) : keyMatches(keys[j], mapping)
  THEN CHOOSE j \in 1..Len(keys) :
         /\ keyMatches(keys[j], mapping)
         /\ \A h \in 1..(j - 1) : ~keyMatches(keys[h], mapping)
  ELSE 0

\* Mutant of findFrom: the loop returns after its first alias, found or not.
findFirstAliasOnly(keys, mappings, i) ==
  IF i > Len(mappings) THEN null
  ELSE LET j == keysFind(keys, mappings[i])
       IN  IF j # 0 /\ keys[j] # "" THEN column(keys[j]) ELSE null

\* The for loop of findColumn from alias i on: `if (found) return found`
\* tests the found NAME for truthiness, so an empty name found does not return.
RECURSIVE findFrom(_, _, _)
findFrom(keys, mappings, i) ==
  IF i > Len(mappings) THEN null
  ELSE LET j == keysFind(keys, mappings[i])
       IN  IF j # 0 /\ keys[j] # "" THEN column(keys[j])
           ELSE findFrom(keys, mappings, i + 1)

findColumn(r, f) ==
  LET mappings == IF f \in DOMAIN COLUMN_MAPPINGS THEN COLUMN_MAPPINGS[f]
                  ELSE <<>>
  IN  findFrom(ObjectKeys(r), mappings, 1)

\* row[column] for a column the row has.
rowAt(r, name) == (CHOOSE j \in 1..Len(r) : r[j].k = name)

getValue(r, f) ==
  LET col == findColumn(r, f)
  IN  IF ~col.isNull /\ col.name # "" THEN r[rowAt(r, col.name)].v ELSE ""

(***************************************************************************)
(* IEEE-754 double arithmetic.  A JavaScript number is modelled exactly:   *)
(* NaN, or sign and magnitude m * 2^e with m a natural number that is 0 or *)
(* has exactly 53 bits.  Naturals wider than TLC's integers are sequences  *)
(* of limbs, least significant first, without leading zero limbs.  Every   *)
(* operation rounds to nearest, ties to even, as the hardware does.        *)
(***************************************************************************)
LimbBits == 15
LimbBase == 2^LimbBits
MantissaBits == 53

RECURSIVE natTrim(_)
natTrim(a) ==
  IF Len(a) > 0 /\ a[Len(a)] = 0 THEN natTrim(SubSeq(a, 1, Len(a) - 1)) ELSE a

\* A natural below LimbBase^2 as limbs.
natOfInt(n) == natTrim(<<n % LimbBase, n \div LimbBase>>)

RECURSIVE natToInt(_)
natToInt(a) == IF a = <<>> THEN 0 ELSE a[1] + LimbBase * natToInt(Tail(a))

limbAt(a, i) == IF i <= Len(a) THEN a[i] ELSE 0

RECURSIVE natAddFrom(_, _, _, _)
natAddFrom(a, b, i, carry) ==
  IF i > Len(a) /\ i > Len(b)
  THEN IF carry = 0 THEN <<>> ELSE <<carry>>
  ELSE LET x == limbAt(a, i) + limbAt(b, i) + carry
       IN  <<x % LimbBase>> \o natAddFrom(a, b, i + 1, x \div LimbBase)

natAdd(a, b) == natAddFrom(a, b, 1, 0)

\* a * k for 0 <= k <= LimbBase.
RECURSIVE natMulFrom(_, _, _, _)
natMulFrom(a, k, i, carry) ==
  IF i > Len(a)
  THEN IF carry = 0 THEN <<>> ELSE <<carry>>
  ELSE LET x == a[i] * k + carry
       IN  <<x % LimbBase>> \o natMulFrom(a, k, i + 1, x \div LimbBase)

natMulSmall(a, k) == natTrim(natMulFrom(a, k, 1, 0))

\* Long division of limbs i..1 by 0 < k <= LimbBase, r the running remainder.
RECURSIVE natDivFrom(_, _, _, _)
natDivFrom(a, k, i, r) ==
  IF i = 0 THEN [q |-> <<>>, r |-> r]
  ELSE LET cur  == r * LimbBase + a[i]
           rest == natDivFrom(a, k, i - 1, cur % k)
       IN  [q |-> Append(rest.q, cur \div k), r |-> rest.r]

natDivSmall(a, k) ==
  LET d == natDivFrom(a, k, Len(a), 0) IN [q |-> natTrim(d.q), r |-> d.r]

limbZeros(n) == [i \in 1..n |-> 0]

\* a * 2^s.
natShl(a, s) ==
  IF a = <<>> THEN <<>>
  ELSE limbZeros(s \div LimbBits) \o natMulSmall(a, 2^(s % LimbBits))

\* floor(a / 2^s), and whether a bit was shifted out.
natShr(a, s) ==
  LET drop == s \div LimbBits
      kept == SubSeq(a, drop + 1, Len(a))
      d    == natDivSmall(kept, 2^(s % LimbBits))
  IN  [q |-> d.q,
       lost |-> d.r # 0 \/ \E i \in 1..drop : limbAt(a, i) # 0]

smallBitLen(x) == CHOOSE n \in 0..LimbBits : x < 2^n /\ (n = 0 \/ x >= 2^(n - 1))

natBitLen(a) ==
  IF a = <<>> THEN 0 ELSE (Len(a) - 1) * LimbBits + smallBitLen(a[Len(a)])

natIsOdd(a) == a # <<>> /\ a[1] % 2 = 1

\* a < b, a = b or a > b as -1, 0, 1.
RECURSIVE natCmpFrom(_, _, _)
natCmpFrom(a, b, i) ==
  IF i = 0 THEN 0
  ELSE IF a[i] < b[i] THEN -1
  ELSE IF a[i] > b[i] THEN 1
  ELSE natCmpFrom(a, b, i - 1)

natCmp(a, b) ==
  IF Len(a) < Len(b) THEN -1
  ELSE IF Len(a) > Len(b) THEN 1
  ELSE natCmpFrom(a, b, Len(a))

NaN == [kind |-> "nan", neg |-> FALSE, m |-> <<>>, e |-> 0]
Infinity(neg) == [kind |-> "inf", neg |-> neg, m |-> <<>>, e |-> 0]
number(neg, m, e) == [kind |-> "num", neg |-> neg, m |-> m, e |-> e]
fZero == number(FALSE, <<>>, 0)

\* The double nearest to n * 2^e (plus a positive amount below one unit of n
\* when sticky), ties to even.
roundToDouble(neg, n, e, sticky) ==
  IF n = <<>> THEN number(neg, <<>>, 0)
  ELSE
    const(natBitLen(n) - MantissaBits,
      LAMBDA s :
        IF s <= 0 THEN number(neg, natShl(n, -s), e + s)
        ELSE
          const(natShr(n, s - 1),
            LAMBDA h :
              const(natShr(h.q, 1).q,
                LAMBDA q :
                  const(IF natIsOdd(h.q) /\ (sticky \/ h.lost \/ natIsOdd(q))
                        THEN natAdd(q, <<1>>) ELSE q,
                    LAMBDA m :
                      IF natBitLen(m) > MantissaBits
                      THEN number(neg, natShr(m, 1).q, e + s + 1)
                      ELSE number(neg, m, e + s)))))

\* The double nearest to the rational p / q, 0 <= p < LimbBase^2, 0 < q <= LimbBase.
fromRatio(neg, p, q) ==
  LET d == natDivSmall(natShl(natOfInt(p), 5 * LimbBits), q)
  IN  roundToDouble(neg, d.q, -(5 * LimbBits), d.r # 0)

fromInt(n) == fromRatio(n < 0, IF n < 0 THEN -n ELSE n, 1)

\* x + y for non-negative numbers (the only sums the reducers form).
fAdd(x, y) ==
  IF x.m = <<>> THEN y
  ELSE IF y.m = <<>> THEN x
  ELSE LET e == IF x.e < y.e THEN x.e ELSE y.e
       IN  roundToDouble(FALSE,
                         natAdd(natShl(x.m, x.e - e), natShl(y.m, y.e - e)),
                         e, FALSE)

\* x / n for a non-negative number x and an integer 0 < n <= LimbBase.
fDivInt(x, n) ==
  LET d == natDivSmall(natShl(x.m, 2 * LimbBits), n)
  IN  roundToDouble(x.neg, d.q, x.e - 2 * LimbBits, d.r # 0)

\* x * k for an integer 0 <= k <= LimbBase.
fMulInt(x, k) == roundToDouble(x.neg, natMulSmall(x.m, k), x.e, FALSE)

\* |x| compared with the integer c >= 0: -1, 0, 1.
magCmpInt(x, c) ==
  IF x.e >= 0 THEN natCmp(natShl(x.m, x.e), natOfInt(c))
  ELSE natCmp(x.m, natShl(natOfInt(c), -x.e))

\* x >= c and x <= c for an integer c >= 0 (false for NaN, as in JavaScript).
fGeInt(x, c) ==
  CASE x.kind = "nan" -> FALSE
    [] x.kind = "inf" -> ~x.neg
    [] OTHER -> IF x.neg THEN x.m = <<>> /\ c = 0 ELSE magCmpInt(x, c) >= 0

fLeInt(x, c) ==
  CASE x.kind = "nan" -> FALSE
    [] x.kind = "inf" -> x.neg
    [] OTHER -> IF x.neg THEN TRUE ELSE magCmpInt(x, c) <= 0

isNaN(x) == x.kind = "nan"

\* Math.round of a non-negative number: the nearest integer, a half going up.
MathRound(x) ==
  IF x.m = <<>> THEN 0
  ELSE IF x.e >= 0 THEN natToInt(natShl(x.m, x.e))
  ELSE IF -x.e > MantissaBits + 1 THEN 0
  ELSE natToInt(natShr(natAdd(natShr(x.m, -x.e - 1).q, <<1>>), 1).q)

(***************************************************************************)
(* parseFloat                                                              *)
(***************************************************************************)
DecimalDigits == "0123456789"
DigitVal == [c \in {charAt(DecimalDigits, i) : i \in 1..10} |->
               (CHOOSE i \in 1..10 : charAt(DecimalDigits, i) = c) - 1]
isDigit(c) == c \in DOMAIN DigitVal

\* StrWhiteSpaceChar (the ones a CSV cell holds).
WhiteSpace == {" ", "\t", "\n", "\r"}

RECURSIVE skipWhiteSpace(_, _)
skipWhiteSpace(s, i) ==
  IF i <= Len(s) /\ charAt(s, i) \in WhiteSpace THEN skipWhiteSpace(s, i + 1)
  ELSE i

\* The index after the run of decimal digits that starts at i.
RECURSIVE digitsEnd(_, _)
digitsEnd(s, i) ==
  IF i <= Len(s) /\ isDigit(charAt(s, i)) THEN digitsEnd(s, i + 1) ELSE i

RECURSIVE digitsToInt(_)
digitsToInt(d) ==
  IF Len(d) = 0 THEN 0
  ELSE 10 * digitsToInt(SubSeq(d, 1, Len(d) - 1)) + DigitVal[charAt(d, Len(d))]

\* parseFloat(s): leading white space is skipped, the longest prefix that is
\* a StrDecimalLiteral is read and rounded to the nearest double, and NaN is
\* returned when there is none.  (Literals of up to 9 digits, 4 of them after
\* the point.)
\* The StrDecimalLiteral of s whose sign is at i0: digits from i1 to j, a
\* fraction up to k and an exponent whose digits run from x1 to x2.
decimalLiteral(s, i0, i1, j, k, x0, x1, x2) ==
  [neg   |-> charAt(s, i0) = "-",
   int   |-> SubSeq(s, i1, j - 1),
   frac  |-> IF charAt(s, j) = "." THEN SubSeq(s, j + 1, k - 1) ELSE "",
   exp   |-> IF x0 > k /\ x2 > x1
             THEN (IF charAt(s, x0) = "-" THEN -1 ELSE 1)
                    * digitsToInt(SubSeq(s, x1, x2 - 1))
             ELSE 0]

\* The places of the parts of the literal that starts at i1 (after the sign
\* at i0, if any).
scanFrom(s, i0, i1) ==
  const(digitsEnd(s, i1),
    LAMBDA j :
      const(IF charAt(s, j) = "." THEN digitsEnd(s, j + 1) ELSE j,
        LAMBDA k :
          const(IF charAt(s, k) \in {"e", "E"} THEN k + 1 ELSE k,
            LAMBDA x0 :
              const(IF charAt(s, x0) \in {"-", "+"} THEN x0 + 1 ELSE x0,
                LAMBDA x1 :
                  decimalLiteral(s, i0, i1, j, k, x0, x1, digitsEnd(s, x1))))))

parseFloat(s) ==
  const(skipWhiteSpace(s, 1),
    LAMBDA i0 :
      const(IF charAt(s, i0) \in {"-", "+"} THEN i0 + 1 ELSE i0,
        LAMBDA i1 :
          const(scanFrom(s, i0, i1),
            LAMBDA lit :
              const(lit.exp - Len(lit.frac),
                LAMBDA scale :
                  const(digitsToInt(lit.int \o lit.frac),
                    LAMBDA p :
                      IF substring(s, i1, i1 + 7) = "Infinity"
                      THEN Infinity(lit.neg)
                      ELSE IF lit.int = "" /\ lit.frac = "" THEN NaN
                      ELSE IF scale >= 0
                      THEN fromRatio(lit.neg, p * 10^scale, 1)
                      ELSE fromRatio(lit.neg, p, 10^(-scale)))))))

(***************************************************************************)
(* Rating reducer                                                          *)
(***************************************************************************)
\* Mutant of retainedRating: the range taken as open.
retainedRatingOpen(r) == ~isNaN(r) /\ ~fLeInt(r, 1) /\ ~fGeInt(r, 10)

\* The filter of processRating.
retainedRating(r) == ~isNaN(r) /\ fGeInt(r, 1) /\ fLeInt(r, 10)

\* ratings.reduce((a, b) => a + b, 0) over the elements lo..hi, in order,
\* starting from acc.
RECURSIVE reduceSum(_, _, _, _)
reduceSum(ratings, lo, hi, acc) ==
  IF lo > hi THEN acc
  ELSE IF lo = hi THEN fAdd(acc, ratings[lo])
  ELSE const(reduceSum(ratings, lo, (lo + hi) \div 2, acc),
         LAMBDA a : reduceSum(ratings, (lo + hi) \div 2 + 1, hi, a))

\* distribution[rounded] = (distribution[rounded] || 0) + 1 for one rating.
countOne(rounded, distribution) ==
  IF rounded \in DOMAIN distribution
  THEN [distribution EXCEPT ![rounded] = @ + 1]
  ELSE distribution @@ (rounded :> 1)

\* ratings.forEach(r => { ... }) over the elements lo..hi, in order.
RECURSIVE countRounded(_, _, _, _)
countRounded(ratings, lo, hi, distribution) ==
  IF lo > hi THEN distribution
  ELSE IF lo = hi
  THEN const(MathRound(ratings[lo]), LAMBDA rounded : countOne(rounded, distribution))
  ELSE const(countRounded(ratings, lo, (lo + hi) \div 2, distribution),
         LAMBDA d : countRounded(ratings, (lo + hi) \div 2 + 1, hi, d))

\* A number with one decimal, k / 10, written by its tenths k.
tenths(k) == [tenths |-> k]

\* data.map(row => parseFloat(getValue(row, 'rating'))).filter(...)
retainedRatings(data) ==
  SelectSeq([i \in 1..Len(data) |-> parseFloat(getValue(data[i], "rating"))],
            retainedRating)

\* ratings.reduce((a, b) => a + b, 0) / ratings.length
averageOf(ratings) ==
  const(reduceSum(ratings, 1, Len(ratings), fZero),
    LAMBDA sum : fDivInt(sum, Len(ratings)))

\* The object processRating returns for a non-empty retained set.
ratingOf(ratings, average) ==
  [average      |-> const(fMulInt(average, 10),
                      LAMBDA scaled : tenths(MathRound(scaled))),
   count        |-> Len(ratings),
   distribution |-> countRounded(ratings, 1, Len(ratings),
                                 <<0, 0, 0, 0, 0, 0, 0, 0, 0, 0>>)]

\* Mutant of processRating: no early return for an empty retained set.
processRatingNoEarlyReturn(data) ==
  const(retainedRatings(data),
    LAMBDA ratings :
      const(IF Len(ratings) = 0 THEN fZero ELSE averageOf(ratings),
        LAMBDA average : ratingOf(ratings, average)))

processRating(data) ==
  const(retainedRatings(data),
    LAMBDA ratings :
      IF Len(ratings) = 0
      THEN [average |-> tenths(0), count |-> 0, distribution |-> <<>>]
      ELSE const(averageOf(ratings),
             LAMBDA average : ratingOf(ratings, average)))

(***************************************************************************)
(* Specification SpecColumns: findColumn on bounded rows                   *)
(***************************************************************************)
MaxCols == 2

\* Column names a CSV header can hold: documented names, bare aliases, names
\* that only overlap an alias, unrelated names and the empty header cell.
ColumnNames ==
  {"", "e", "Rating", "Score", "Rate this pizza (1-10)", "Pizza",
   "Which pizza did you try?", "Pizza tier ranking", "Tier", "Name",
   "Cold pizza preference", "Comments", "Timestamp", "Your Feedback!"}

\* Rows of up to MaxCols distinct columns (an object has no duplicate key).
RECURSIVE RowsOfLen(_)
RowsOfLen(n) ==
  IF n = 0 THEN {<<>>}
  ELSE {Append(r, [k |-> c, v |-> "x"]) :
          r \in RowsOfLen(n - 1), c \in ColumnNames}

NoDupKeys(r) == \A i, j \in 1..Len(r) : r[i].k = r[j].k => i = j

ColRows == UNION {{r \in RowsOfLen(n) : NoDupKeys(r)} : n \in 0..MaxCols}

ColIdle == row = <<>> /\ field = "" /\ found = [done |-> FALSE, col |-> null]
DocIdle == order = <<>> /\ docField = "" /\ docFound = null
DataIdle == rawData = <<>> /\ processed = [done |-> FALSE]
AppIdle ==
  /\ page = [script |-> "", timeZone |-> "", container |-> ""]
  /\ uploadSection = "" /\ modal = ""
  /\ infographicSection = [visible |-> FALSE, innerHTML |-> ""]
  /\ currentProcessedData = [isNull |-> TRUE]
  /\ currentPizzaInfo = [isNull |-> TRUE]
  /\ pendingRawData = [isNull |-> TRUE, rows |-> <<>>]
  /\ timers = <<>> /\ errors = <<>> /\ events = 0
CarIdle ==
  /\ currentSlide = 0 /\ autoplayInterval = [isNull |-> TRUE]
  /\ sections = <<>> /\ carousels = <<>> /\ intervals = {}
  /\ hovering = FALSE

ColInit ==
  /\ row \in ColRows
  /\ field \in {Fields[i] : i \in 1..Len(Fields)} \cup {"unknown"}
  /\ found = [done |-> FALSE, col |-> null]

FindColumn ==
  /\ ~found.done
  /\ found' = [done |-> TRUE, col |-> findColumn(row, field)]
  /\ UNCHANGED <<row, field, docVars, dataVars, appVars, carVars>>

ColNext == FindColumn

ColumnsInit == ColInit /\ DocIdle /\ DataIdle /\ AppIdle /\ CarIdle

SpecColumns == ColumnsInit /\ [][ColNext]_vars

(***************************************************************************)
(* Specification SpecReadme: the documented CSV header, in varying order   *)
(***************************************************************************)
\* The nine column names of the README's CSV format table, as documented
\* (the sample generator builds its rows with the same names).
ReadmeColumns ==
  <<"Timestamp", "Rate this pizza (1-10)", "Which pizza did you try?",
    "How do you feel after eating?", "Would you order again?",
    "Pizza tier ranking", "One word to describe", "Cold pizza preference",
    "Additional comments">>

\* The number of column transpositions applied to the documented order.
MaxSwaps == 1

Swap(o, a, b) ==
  [i \in 1..Len(o) |-> IF i = a THEN o[b] ELSE IF i = b THEN o[a] ELSE o[i]]

RECURSIVE OrdersWithin(_)
OrdersWithin(n) ==
  IF n = 0 THEN {[i \in 1..Len(ReadmeColumns) |-> i]}
  ELSE OrdersWithin(n - 1) \cup
       {Swap(o, a, b) : o \in OrdersWithin(n - 1),
                        a \in 1..Len(ReadmeColumns),
                        b \in 1..Len(ReadmeColumns)}

ReadmeOrders == OrdersWithin(MaxSwaps)

\* The row with the documented columns in the order o.
ReadmeRow(o) == [i \in 1..Len(o) |-> [k |-> ReadmeColumns[o[i]], v |-> "x"]]

DocInit == order \in ReadmeOrders /\ docField = "" /\ docFound = null

ResolveDocumented(f) ==
  /\ docField = ""
  /\ docField' = f
  /\ docFound' = findColumn(ReadmeRow(order), f)
  /\ UNCHANGED <<order, colVars, dataVars, appVars, carVars>>

DocNext == \E i \in 1..Len(Fields) : ResolveDocumented(Fields[i])

ReadmeInit == DocInit /\ ColIdle /\ DataIdle /\ AppIdle /\ CarIdle

SpecReadme == ReadmeInit /\ [][DocNext]_vars

(***************************************************************************)
(* Specification SpecRating: processRating on bounded row sequences        *)
(***************************************************************************)
MaxRatingRows == 2

\* Answers found in a rating cell: integers, the bounds and their neighbours,
\* halves, decimals, an answer with a suffix, text and the empty cell.
RatingTexts ==
  {"8", "10", "bad", "", "1", "0", "11", "7.5", "8.5", "1.1", "4.6", "9/10",
   "10.01", "0.99"}

\* One response: a row with a rating column, or one without it.
RatingRows ==
  {<<[k |-> "rating", v |-> t]>> : t \in RatingTexts}
    \cup {<<[k |-> "Name", v |-> "Ann"]>>}

RECURSIVE SeqsOfLen(_, _)
SeqsOfLen(S, n) ==
  IF n = 0 THEN {<<>>}
  ELSE {Append(q, x) : q \in SeqsOfLen(S, n - 1), x \in S}

\* Scenario 1 of the spec.
Scenario1Rows ==
  <<<<[k |-> "rating", v |-> "8"]>>, <<[k |-> "rating", v |-> "10"]>>,
    <<[k |-> "rating", v |-> "bad"]>>>>

RatingInit ==
  /\ rawData \in UNION {SeqsOfLen(RatingRows, n) : n \in 1..MaxRatingRows}
                   \cup {Scenario1Rows}
  /\ processed = [done |-> FALSE]
  /\ ColIdle /\ DocIdle /\ AppIdle /\ CarIdle

ProcessRating ==
  /\ ~processed.done
  /\ processed' = [done |-> TRUE, rating |-> processRating(rawData)]
  /\ UNCHANGED <<rawData, colVars, docVars, appVars, carVars>>

RatingNext == ProcessRating

SpecRating == RatingInit /\ [][RatingNext]_vars

(***************************************************************************)
(* Claims on the column resolver                                           *)
(***************************************************************************)
\* The aliases configured for the looked-up field (none for an unknown one).
AliasesOf(f) == IF f \in DOMAIN COLUMN_MAPPINGS THEN COLUMN_MAPPINGS[f] ELSE <<>>

\* A column name and an alias overlap: one lower-cased string contains the other.
Overlaps(name, alias) ==
  \/ includes(toLowerCase(name), toLowerCase(alias))
  \/ includes(toLowerCase(alias), toLowerCase(name))

\* The (alias index, column index) pairs of the row that overlap.
Hits(r, f) ==
  {h \in (1..Len(AliasesOf(f))) \X (1..Len(r)) :
     Overlaps(r[h[2]].k, AliasesOf(f)[h[1]])}

\* h comes no later than g: earlier alias, or same alias and earlier column.
NoLater(h, g) == h[1] < g[1] \/ (h[1] = g[1] /\ h[2] <= g[2])

\* C3 (as claimed): findColumn returns the column of the first overlapping
\* (alias, column) pair, aliases in priority order and columns in iteration
\* order within an alias, and returns null exactly when no pair overlaps.
C3_FirstOverlapReturned ==
  found.done =>
    IF Hits(row, field) = {} THEN found.col = null
    ELSE \E h \in Hits(row, field) :
           /\ \A g \in Hits(row, field) : NoLater(h, g)
           /\ found.col = column(row[h[2]].k)

\* C4 (as claimed): a column named exactly as one of the field's aliases is
\* the one returned, whatever other columns the row has; and a row in which
\* no column overlaps any alias gives not-found.
C4_ExactAliasAlwaysReturned ==
  found.done =>
    /\ \A j \in 1..Len(row) :
         (\E i \in 1..Len(AliasesOf(field)) : row[j].k = AliasesOf(field)[i])
           => found.col = column(row[j].k)
    /\ (Hits(row, field) = {} => found.col = null)

\* C4 (amended): a column named exactly as alias i of the field is returned
\* when no column of the row overlaps an earlier alias and no earlier column
\* overlaps alias i; and a row in which no column overlaps any alias gives
\* not-found.
C4_ExactAliasUnshadowed ==
  found.done =>
    /\ \A j \in 1..Len(row) : \A i \in 1..Len(AliasesOf(field)) :
         ( /\ row[j].k = AliasesOf(field)[i]
           /\ \A g \in Hits(row, field) : NoLater(<<i, j>>, g) )
           => found.col = column(row[j].k)
    /\ (Hits(row, field) = {} => found.col = null)

\* C4 witness: a two-column row whose second column is an exact alias, the
\* first one overlapping nothing, was resolved to the exact column; the other
\* order of these two columns is covered as well.
C4_Witness ==
  /\ found.done /\ Len(row) = 2 /\ field = "rating"
  /\ row[1].k = "Name" /\ row[2].k = "Score"
  /\ found.col = column("Score")

\* The logical fields other than f that resolve, in row r, to the column
\* name findColumn returned for f.
sharingColumn(r, f) ==
  {g \in DOMAIN COLUMN_MAPPINGS \ {f} : findColumn(r, g) = findColumn(r, f)}

\* C28: within one row two different logical fields never resolve to the
\* same column: when findColumn finds a column for f and one for g # f, the
\* names differ, also in rows that lack a column for one of the fields and
\* rows with very short or empty column names.
C28_FieldsResolveToDistinctColumns ==
  (found.done /\ ~found.col.isNull) => sharingColumn(row, field) = {}

\* The README column documented for each logical field.
DocumentedColumn ==
  [f \in DOMAIN COLUMN_MAPPINGS |->
    CASE f = "timestamp"  -> "Timestamp"
      [] f = "rating"     -> "Rate this pizza (1-10)"
      [] f = "pizzaType"  -> "Which pizza did you try?"
      [] f = "feeling"    -> "How do you feel after eating?"
      [] f = "orderAgain" -> "Would you order again?"
      [] f = "tier"       -> "Pizza tier ranking"
      [] f = "oneWord"    -> "One word to describe"
      [] f = "coldPizza"  -> "Cold pizza preference"
      [] f = "comments"   -> "Additional comments"]

\* C5: in a row whose columns are the nine README names, in any order, each
\* logical field resolves to its own documented column.
C5_ReadmeColumnsResolve ==
  docField # "" => docFound = column(DocumentedColumn[docField])

\* C5 witness: with the columns out of the documented order, pizzaType was
\* resolved to its own column although three other columns contain "pizza".
C5_Witness ==
  /\ docField = "pizzaType"
  /\ order[1] = 6 /\ order[6] = 1
  /\ docFound = column("Which pizza did you try?")

(***************************************************************************)
(* Claims on the rating reducer                                            *)
(***************************************************************************)
\* What each rating cell says, read as a decimal and written in hundredths;
\* -1 for a cell that does not start with a number.
DecimalOf ==
  [t \in RatingTexts |->
    CASE t = "8" -> 800    [] t = "10" -> 1000   [] t = "1" -> 100
      [] t = "0" -> 0      [] t = "11" -> 1100   [] t = "7.5" -> 750
      [] t = "8.5" -> 850  [] t = "1.1" -> 110   [] t = "4.6" -> 460
      [] t = "9/10" -> 900 [] t = "10.01" -> 1001 [] t = "0.99" -> 99
      [] OTHER -> -1]

RowDecimal(r) == IF r[1].k = "rating" THEN DecimalOf[r[1].v] ELSE -1

\* The rows whose rating lies in the closed range [1, 10].
InRangeRows ==
  {i \in 1..Len(rawData) :
     RowDecimal(rawData[i]) >= 100 /\ RowDecimal(rawData[i]) <= 1000}

RECURSIVE SumOver(_, _)
SumOver(f, S) ==
  IF S = {} THEN 0
  ELSE LET x == CHOOSE x \in S : TRUE IN f[x] + SumOver(f, S \ {x})

InRangeSum ==
  SumOver([i \in 1..Len(rawData) |-> RowDecimal(rawData[i])], InRangeRows)

\* C7: count is the number of rows whose rating lies in [1, 10] (1 and 10 in,
\* 0, 11 and unparseable cells out), the distribution buckets sum to count,
\* and the average lies in [1, 10] whenever count > 0.
C7_CountRangeAndBucketSum ==
  processed.done =>
    LET r == processed.rating
    IN  /\ r.count = Cardinality(InRangeRows)
        /\ SumOver(r.distribution, DOMAIN r.distribution) = r.count
        /\ (r.count > 0 => r.average.tenths >= 10 /\ r.average.tenths <= 100)

\* C7 witness: of the two ratings "10" and "0" exactly the first was counted.
C7_Witness ==
  /\ processed.done
  /\ rawData = <<<<[k |-> "rating", v |-> "10"]>>, <<[k |-> "rating", v |-> "0"]>>>>
  /\ processed.rating.count = 1
  /\ processed.rating.average = tenths(100)

NoRatingResult == [average |-> tenths(0), count |-> 0, distribution |-> <<>>]

\* C8 (as claimed): Scenario 1 gives average 9.0, count 2 and a distribution
\* equal to {8: 1, 10: 1}; with no retained rating the result is
\* {average: 0, count: 0, distribution: {}}.
C8_ScenarioDistributionSparse ==
  processed.done =>
    /\ rawData = Scenario1Rows =>
         processed.rating = [average |-> tenths(90), count |-> 2,
                             distribution |-> (8 :> 1 @@ 10 :> 1)]
    /\ InRangeRows = {} => processed.rating = NoRatingResult

\* C8 (amended): Scenario 1 gives average 9.0, count 2 and a distribution
\* over all buckets 1..10 in which 8 and 10 hold 1 and the others 0; with no
\* retained rating the result is {average: 0, count: 0, distribution: {}}.
C8_ScenarioDistributionFull ==
  processed.done =>
    /\ rawData = Scenario1Rows =>
         processed.rating =
           [average |-> tenths(90), count |-> 2,
            distribution |-> [b \in 1..10 |-> IF b \in {8, 10} THEN 1 ELSE 0]]
    /\ InRangeRows = {} => processed.rating = NoRatingResult

\* C8 witness: Scenario 1 was processed and two ratings were retained.
C8_Witness ==
  processed.done /\ rawData = Scenario1Rows /\ processed.rating.count = 2

\* C9 (as claimed): the average is the mean of the retained ratings rounded
\* to one decimal, a half going up, and every retained rating is counted in
\* the bucket of its nearest integer, a half going up, so that all buckets
\* lie in 1..10.
C9_AverageHalfUp ==
  processed.done /\ processed.rating.count > 0 =>
    LET r == processed.rating
    IN  /\ r.average.tenths =
             (2 * InRangeSum + 10 * r.count) \div (20 * r.count)
        /\ DOMAIN r.distribution \subseteq 1..10
        /\ \A b \in DOMAIN r.distribution :
             r.distribution[b] =
               Cardinality({i \in InRangeRows :
                              (RowDecimal(rawData[i]) + 50) \div 100 = b})

(***************************************************************************)
(* Percentages                                                             *)
(***************************************************************************)
\* Mutant of percentage: the share is rounded without the factor 100.
percentageUnscaled(count, total) == MathRound(fromRatio(FALSE, count, total))

\* Math.round((count / total) * 100) for 0 <= count and 0 < total.
percentage(count, total) ==
  const(fromRatio(FALSE, count, total),
    LAMBDA share : const(fMulInt(share, 100), LAMBDA x : MathRound(x)))

\* total > 0 ? Math.round((count / total) * 100) : 0
percentageOrZero(count, total) ==
  IF total > 0 THEN percentage(count, total) ELSE 0

RECURSIVE sumCounts(_, _)
sumCounts(counts, i) ==
  IF i > Len(counts) THEN 0 ELSE counts[i] + sumCounts(counts, i + 1)

(***************************************************************************)
(* Closed-set reducers: processOrderAgain, processTiers, processColdPizza  *)
(***************************************************************************)
\* The branches of each reducer's if / else-if chain, in the order written.
\* (An icon is written by its code point: the module's strings are ASCII.)
OrderAgainRules ==
  <<[category |-> "yes", keywords |-> <<"yes", "absolutely", "definitely">>],
    [category |-> "meh", keywords |-> <<"meh", "maybe", "no">>]>>

TierRules ==
  <<[category |-> "Top Tier", icon |-> "U+1F3C6", color |-> "#FFD700",
     keywords |-> <<"top", "best", "excellent">>],
    [category |-> "Solid Choice", icon |-> "U+1F948", color |-> "#C0C0C0",
     keywords |-> <<"solid", "good", "great">>],
    [category |-> "Mid", icon |-> "U+1F949", color |-> "#CD7F32",
     keywords |-> <<"mid", "average", "okay">>]>>

ColdPizzaRules ==
  <<[category |-> "Leftovers Please!", color |-> "#27AE60",
     keywords |-> <<"leftover", "please", "love", "yes">>],
    [category |-> "If Desperate", color |-> "#F39C12",
     keywords |-> <<"desperate", "maybe", "sometimes">>],
    [category |-> "Never!", color |-> "#C0392B",
     keywords |-> <<"never", "no", "chance">>]>>

\* lowered.includes(k1) || lowered.includes(k2) || ...
includesAny(lowered, keywords) ==
  \E j \in 1..Len(keywords) : includes(lowered, keywords[j])

\* Mutant of firstRule: the chain taken from its last branch.
lastRule(rules, lowered, i) ==
  LET S == {j \in i..Len(rules) : includesAny(lowered, rules[j].keywords)}
  IN  IF S = {} THEN 0 ELSE CHOOSE j \in S : \A h \in S : h <= j

\* The if / else-if chain from branch i on: the branch taken, 0 for none.
RECURSIVE firstRule(_, _, _)
firstRule(rules, lowered, i) ==
  IF i > Len(rules) THEN 0
  ELSE IF includesAny(lowered, rules[i].keywords) THEN i
  ELSE firstRule(rules, lowered, i + 1)

\* Mutant of countAnswers: `if` for every branch instead of `else if`, so a
\* row is counted by every branch with a keyword in it.
countAnswersEveryBranch(data, f, rules) ==
  [j \in 1..Len(rules) |->
     Cardinality({i \in 1..Len(data) :
                    /\ getValue(data[i], f) # ""
                    /\ includesAny(toLowerCase(getValue(data[i], f)),
                                   rules[j].keywords)})]

\* data.forEach of a closed-set reducer: counts[j] is the counter incremented
\* by branch j, once for every row with a non-empty answer that takes it.
countAnswers(data, f, rules) ==
  const([i \in 1..Len(data) |->
           LET value == getValue(data[i], f)
           IN  IF value = "" THEN 0 ELSE firstRule(rules, toLowerCase(value), 1)],
    LAMBDA branch :
      [j \in 1..Len(rules) |->
         Cardinality({i \in 1..Len(data) : branch[i] = j})])

processOrderAgain(data) ==
  const(countAnswers(data, "orderAgain", OrderAgainRules),
    LAMBDA counts :
      LET yes   == counts[1]
          meh   == counts[2]
          total == yes + meh
      IN  [yes   |-> [count |-> yes,
                      percentage |-> percentageOrZero(yes, total)],
           meh   |-> [count |-> meh,
                      percentage |-> percentageOrZero(meh, total)],
           total |-> total])

processTiers(data) ==
  const(countAnswers(data, "tier", TierRules),
    LAMBDA counts :
      LET total == sumCounts(counts, 1)
      IN  [items |-> [j \in 1..Len(TierRules) |->
                        [name       |-> TierRules[j].category,
                         count      |-> counts[j],
                         percentage |-> percentageOrZero(counts[j], total),
                         icon       |-> TierRules[j].icon,
                         color      |-> TierRules[j].color]],
           total |-> total])

processColdPizza(data) ==
  const(countAnswers(data, "coldPizza", ColdPizzaRules),
    LAMBDA counts :
      LET total == sumCounts(counts, 1)
      IN  [items |-> [j \in 1..Len(ColdPizzaRules) |->
                        [label      |-> ColdPizzaRules[j].category,
                         count      |-> counts[j],
                         percentage |-> percentageOrZero(counts[j], total),
                         color      |-> ColdPizzaRules[j].color]],
           total |-> total])

(***************************************************************************)
(* Objects used as dictionaries, and Array.prototype.sort                  *)
(***************************************************************************)
\* A dictionary object is the sequence of its own entries in insertion
\* order; each entry is a record with its property name in `key`.
\* The properties every object inherits from Object.prototype whose names a
\* lower-cased text can spell: obj[name] is truthy for them on an empty {}.
ObjectPrototype == {"constructor", "__proto__"}

\* An integer-like property name ("0", "7", "42"): such keys are enumerated
\* first, in ascending numeric order.
isArrayIndex(key) ==
  /\ Len(key) > 0
  /\ \A i \in 1..Len(key) : isDigit(charAt(key, i))
  /\ (Len(key) = 1 \/ charAt(key, 1) # "0")

\* The stable sort of s by ascending key[i] (Array.prototype.sort is stable).
sortByKey(s, key) ==
  LET rank(i) == Cardinality({j \in 1..Len(s) :
                                key[j] < key[i] \/ (key[j] = key[i] /\ j < i)})
  IN  [p \in 1..Len(s) |-> s[CHOOSE i \in 1..Len(s) : rank(i) = p - 1]]

\* Object.values / Object.entries order: integer-like keys ascending, then
\* the other keys in insertion order.
ObjectValues(obj) ==
  LET idx  == SelectSeq(obj, LAMBDA e : isArrayIndex(e.key))
      rest == SelectSeq(obj, LAMBDA e : ~isArrayIndex(e.key))
  IN  sortByKey(idx, [j \in 1..Len(idx) |-> digitsToInt(idx[j].key)]) \o rest

\* items.sort((a, b) => b.count - a.count)
sortByCountDesc(items) ==
  sortByKey(items, [j \in 1..Len(items) |-> -items[j].count])

(***************************************************************************)
(* processFeelings                                                         *)
(***************************************************************************)
\* The module's strings are ASCII: "^" and "~" stand for two characters of
\* the ranges of emojiRegex (U+1F60D and U+2764), and every other character
\* is outside them.
EmojiChars == {"^", "~"}
DefaultEmoji == "U+1F355"

\* String.prototype.trim
RECURSIVE trimEnd(_)
trimEnd(s) ==
  IF Len(s) > 0 /\ charAt(s, Len(s)) \in WhiteSpace
  THEN trimEnd(SubSeq(s, 1, Len(s) - 1)) ELSE s

trim(s) == trimEnd(SubSeq(s, skipWhiteSpace(s, 1), Len(s)))

\* value.match(emojiRegex): the matches, in order.
RECURSIVE matchEmoji(_)
matchEmoji(s) ==
  IF Len(s) = 0 THEN <<>>
  ELSE (IF charAt(s, 1) \in EmojiChars THEN <<charAt(s, 1)>> ELSE <<>>)
         \o matchEmoji(SubSeq(s, 2, Len(s)))

\* s.replace(emojiRegex, '')
RECURSIVE replaceEmoji(_)
replaceEmoji(s) ==
  IF Len(s) = 0 THEN ""
  ELSE (IF charAt(s, 1) \in EmojiChars THEN "" ELSE charAt(s, 1))
         \o replaceEmoji(SubSeq(s, 2, Len(s)))

colorMap ==
  <<[keyword |-> "joy", color |-> "#F1C40F"],
    [keyword |-> "regret", color |-> "#E67E22"],
    [keyword |-> "shame", color |-> "#9B59B6"],
    [keyword |-> "happy", color |-> "#F1C40F"],
    [keyword |-> "satisfied", color |-> "#2ECC71"]>>

\* Mutant of colorOf: the loop has no break, so the last keyword wins.
colorOfLast(normalized, i) ==
  LET S == {j \in i..Len(colorMap) : includes(normalized, colorMap[j].keyword)}
  IN  IF S = {} THEN "#F4D03F"
      ELSE colorMap[CHOOSE j \in S : \A h \in S : h <= j].color

\* The for loop over Object.entries(colorMap), from entry i on.
RECURSIVE colorOf(_, _)
colorOf(normalized, i) ==
  IF i > Len(colorMap) THEN "#F4D03F"
  ELSE IF includes(normalized, colorMap[i].keyword) THEN colorMap[i].color
  ELSE colorOf(normalized, i + 1)

\* data.forEach of processFeelings: one entry for every distinct normalized
\* text, made at the first row with it (which gives `original`, the emoji and
\* the colour) and counting the rows with it.  For a text that spells an
\* inherited property, feelings[normalized] is truthy without an own entry:
\* no entry is made and count++ lands on the inherited object.
countFeelings(data) ==
  const([i \in 1..Len(data) |-> getValue(data[i], "feeling")],
    LAMBDA value :
      const([i \in 1..Len(data) |-> trim(toLowerCase(value[i]))],
        LAMBDA normalized :
          LET counted(i) == value[i] # "" /\ normalized[i] \notin ObjectPrototype
              first == SelectSeq([i \in 1..Len(data) |-> i],
                         LAMBDA i :
                           /\ counted(i)
                           /\ \A h \in 1..(i - 1) :
                                ~(counted(h) /\ normalized[h] = normalized[i]))
          IN  [e \in 1..Len(first) |->
                 LET emojis == matchEmoji(value[first[e]])
                 IN  [key      |-> normalized[first[e]],
                      original |-> trim(value[first[e]]),
                      emoji    |-> IF emojis # <<>> THEN emojis[1]
                                   ELSE DefaultEmoji,
                      color    |-> colorOf(normalized[first[e]], 1),
                      count    |-> Cardinality(
                                     {i \in 1..Len(data) :
                                        /\ counted(i)
                                        /\ normalized[i] = normalized[first[e]]})]]))

processFeelings(data) ==
  const(ObjectValues(countFeelings(data)),
    LAMBDA values :
      const(sumCounts([j \in 1..Len(values) |-> values[j].count], 1),
        LAMBDA total :
          [items |-> sortByCountDesc(
                       [j \in 1..Len(values) |->
                          [feeling    |-> trim(replaceEmoji(values[j].original)),
                           count      |-> values[j].count,
                           percentage |-> percentage(values[j].count, total),
                           emoji      |-> values[j].emoji,
                           color      |-> values[j].color]]),
           total |-> total]))

(***************************************************************************)
(* String.prototype.split and toUpperCase                                  *)
(***************************************************************************)
UpperChar ==
  [c \in {charAt(LowerAlpha, i) : i \in 1..26} |->
     charAt(UpperAlpha, CHOOSE i \in 1..26 : charAt(LowerAlpha, i) = c)]

\* String.prototype.toUpperCase on one character (ASCII letters).
toUpperCase(c) == IF c \in DOMAIN UpperChar THEN UpperChar[c] ELSE c

\* The positions of s that hold a separator, with 0 before and Len(s) + 1
\* after them.
separatorsOf(s, seps) ==
  <<0>> \o SelectSeq([i \in 1..Len(s) |-> i], LAMBDA i : charAt(s, i) \in seps)
        \o <<Len(s) + 1>>

\* s.split(/[...]/) with one-character separators: the pieces between
\* neighbouring separators, the empty ones included.
split(s, seps) ==
  const(separatorsOf(s, seps),
    LAMBDA at : [p \in 1..(Len(at) - 1) |->
                   SubSeq(s, at[p] + 1, at[p + 1] - 1)])

\* s.split(/[...]+/) for a non-empty s: a run of separators separates once,
\* so the pieces are the maximal runs without a separator, and an empty piece
\* where s starts or ends with a separator.
splitRuns(s, seps) ==
  (IF charAt(s, 1) \in seps THEN <<"">> ELSE <<>>)
    \o SelectSeq(split(s, seps), LAMBDA w : w # "")
    \o (IF charAt(s, Len(s)) \in seps THEN <<"">> ELSE <<>>)

\* The indices of `keys` at which a key occurs for the first time.
firstOccurrences(keys) ==
  SelectSeq([i \in 1..Len(keys) |-> i],
            LAMBDA i : \A h \in 1..(i - 1) : keys[h] # keys[i])

\* Mutant of occurrences: counts[k] = 1 instead of (counts[k] || 0) + 1.
occurrencesOnce(keys, k) == 1

occurrences(keys, k) == Cardinality({i \in 1..Len(keys) : keys[i] = k})

\* The elements of arrays[lo], ..., arrays[hi] in order (by halves).
RECURSIVE flatRange(_, _, _)
flatRange(arrays, lo, hi) ==
  IF lo > hi THEN <<>>
  ELSE IF lo = hi THEN arrays[lo]
  ELSE flatRange(arrays, lo, (lo + hi) \div 2)
         \o flatRange(arrays, (lo + hi) \div 2 + 1, hi)

\* array.flat() of an array of arrays, from element i on.
flat(arrays, i) == flatRange(arrays, i, Len(arrays))

(***************************************************************************)
(* processPizzaPopularity                                                  *)
(***************************************************************************)
PizzaMappings ==
  <<[key |-> "cheese", name |-> "Cheese"],
    [key |-> "plain cheese", name |-> "Cheese"],
    [key |-> "pepperoni", name |-> "Pepperoni"],
    [key |-> "pep", name |-> "Pepperoni"],
    [key |-> "chicken pesto", name |-> "Chicken Pesto"],
    [key |-> "pesto chicken", name |-> "Chicken Pesto"],
    [key |-> "veggie", name |-> "Veggie Supreme"],
    [key |-> "vegetable", name |-> "Veggie Supreme"],
    [key |-> "veggie supreme", name |-> "Veggie Supreme"],
    [key |-> "meat lovers", name |-> "Meat Lovers"],
    [key |-> "meat lover", name |-> "Meat Lovers"],
    [key |-> "meatlover", name |-> "Meat Lovers"],
    [key |-> "hawaiian", name |-> "Hawaiian"],
    [key |-> "hawaii", name |-> "Hawaiian"]>>

\* What mappings[lowered] yields, as the property name it is then used for
\* in counts[normalized]: an own entry, or an inherited property of the
\* object literal (a function or an object, which is truthy and is converted
\* to a string when used as a key), or "" for undefined.
mappingsAt(lowered) ==
  IF \E j \in 1..Len(PizzaMappings) : PizzaMappings[j].key = lowered
  THEN PizzaMappings[CHOOSE j \in 1..Len(PizzaMappings) :
                       PizzaMappings[j].key = lowered].name
  ELSE IF lowered = "constructor" THEN "function Object() { [native code] }"
  ELSE IF lowered = "__proto__" THEN "[object Object]"
  ELSE ""

normalizePizzaName(name) ==
  LET lowered == trim(toLowerCase(name))
  IN  IF mappingsAt(lowered) # "" THEN mappingsAt(lowered)
      ELSE toUpperCase(charAt(name, 1)) \o SubSeq(name, 2, Len(name))

\* value.split(/[,;]/).map(p => p.trim()).filter(p => p)
pizzasOf(value) ==
  SelectSeq([j \in 1..Len(split(value, {",", ";"})) |->
               trim(split(value, {",", ";"})[j])],
            LAMBDA q : q # "")

processPizzaPopularity(data) ==
  const(flat([i \in 1..Len(data) |->
                LET value == getValue(data[i], "pizzaType")
                IN  IF value = "" THEN <<>>
                    ELSE [j \in 1..Len(pizzasOf(value)) |->
                            normalizePizzaName(pizzasOf(value)[j])]], 1),
    LAMBDA normalized :
      const(firstOccurrences(normalized),
        LAMBDA first :
          LET counts == [e \in 1..Len(first) |->
                           [key   |-> normalized[first[e]],
                            name  |-> normalized[first[e]],
                            count |-> occurrences(normalized,
                                                  normalized[first[e]])]]
              sorted == sortByCountDesc(ObjectValues(counts))
          IN  [items |-> [j \in 1..Len(sorted) |->
                            [name |-> sorted[j].name, count |-> sorted[j].count]],
               total |-> sumCounts([j \in 1..Len(sorted) |-> sorted[j].count], 1)]))

(***************************************************************************)
(* processWordCloud                                                        *)
(***************************************************************************)
stopWords ==
  {"the", "a", "an", "and", "or", "but", "is", "are", "was", "were", "it",
   "its"}

isStopWord(word) == toLowerCase(word) \in stopWords

\* The separators of /[,;/\s]+/
WordSeparators == {",", ";", "/"} \cup WhiteSpace

\* The words of one answer with the text each is displayed with: the first
\* piece of the answer that is the word when trimmed and lower-cased.
wordsOf(value) ==
  const(splitRuns(value, WordSeparators),
    LAMBDA pieces :
      LET lowered  == [j \in 1..Len(pieces) |-> toLowerCase(trim(pieces[j]))]
          wordList == SelectSeq(lowered,
                                LAMBDA w : Len(w) > 1 /\ ~isStopWord(w))
      IN  [j \in 1..Len(wordList) |->
             [key  |-> wordList[j],
              text |-> trim(pieces[CHOOSE h \in 1..Len(pieces) :
                                     /\ lowered[h] = wordList[j]
                                     /\ \A g \in 1..(h - 1) :
                                          lowered[g] # wordList[j]])]])

\* The top-50 cut: .slice(0, 50)
MaxWords == 50

\* A word that spells an inherited property finds words[word] truthy: no
\* entry is made for it and count++ lands on the inherited object.
processWordCloud(data) ==
  const(SelectSeq(flat([i \in 1..Len(data) |->
                          LET value == getValue(data[i], "oneWord")
                          IN  IF value = "" THEN <<>> ELSE wordsOf(value)], 1),
                  LAMBDA w : w.key \notin ObjectPrototype),
    LAMBDA kept :
      const([j \in 1..Len(kept) |-> kept[j].key],
        LAMBDA keys :
          LET first  == firstOccurrences(keys)
              words  == [e \in 1..Len(first) |->
                           [key   |-> keys[first[e]],
                            text  |-> kept[first[e]].text,
                            count |-> occurrences(keys, keys[first[e]])]]
              sorted == sortByCountDesc(ObjectValues(words))
          IN  [j \in 1..(IF Len(sorted) < MaxWords THEN Len(sorted)
                         ELSE MaxWords) |->
                 [text |-> sorted[j].text, count |-> sorted[j].count]]))

(***************************************************************************)
(* processComments and shuffleArray                                        *)
(***************************************************************************)
\* The comments kept, trimmed, each once, in order of first appearance:
\* [...new Set(comments)]
uniqueComments(data) ==
  const(SelectSeq([i \in 1..Len(data) |-> trim(getValue(data[i], "comments"))],
                  LAMBDA c : Len(c) > 10),
    LAMBDA comments :
      [e \in 1..Len(firstOccurrences(comments)) |->
         comments[firstOccurrences(comments)[e]]])

\* What Math.floor(Math.random() * (i + 1)) can yield in the passes of the
\* loop of shuffleArray over n elements: random[i] is the position (from 1)
\* that position i + 1 is swapped with.
RandomChoices(n) ==
  {random \in [1..(n - 1) -> 1..n] : \A i \in 1..(n - 1) : random[i] <= i + 1}

\* The for loop of shuffleArray from position i down, on the copy arr.
RECURSIVE shuffleFrom(_, _, _)
shuffleFrom(arr, i, random) ==
  IF i <= 1 THEN arr
  ELSE shuffleFrom([p \in 1..Len(arr) |->
                      IF p = i THEN arr[random[i - 1]]
                      ELSE IF p = random[i - 1] THEN arr[i] ELSE arr[p]],
                   i - 1, random)

\* Mutant of shuffleArray: arr[i] = arr[j] without arr[j] = arr[i].
shuffleArrayOverwriting(array, random) ==
  [p \in 1..Len(array) |->
     IF p = 1 THEN array[1] ELSE array[random[p - 1]]]

shuffleArray(array, random) == shuffleFrom(array, Len(array), random)

\* The cut of the comments: .slice(0, 10)
MaxComments == 10

processComments(data, random) ==
  const(shuffleArray(uniqueComments(data), random),
    LAMBDA shuffled :
      SubSeq(shuffled, 1,
             IF Len(shuffled) < MaxComments THEN Len(shuffled) ELSE MaxComments))

(***************************************************************************)
(* processSummary                                                          *)
(***************************************************************************)
MonthNames ==
  <<"Jan", "Feb", "Mar", "Apr", "May", "Jun", "Jul", "Aug", "Sep", "Oct",
    "Nov", "Dec">>

isLeapYear(y) == (y % 4 = 0 /\ y % 100 # 0) \/ y % 400 = 0

daysInMonth(y, m) ==
  IF m = 2 THEN (IF isLeapYear(y) THEN 29 ELSE 28)
  ELSE IF m \in {4, 6, 9, 11} THEN 30 ELSE 31

InvalidDate == [valid |-> FALSE, y |-> 0, m |-> 0, d |-> 0, h |-> 0]

\* The date that the text t, YYYY-MM-DD, spells, at hour h UTC.
dateAt(t, h) ==
  IF /\ charAt(t, 5) = "-" /\ charAt(t, 8) = "-"
     /\ \A i \in {1, 2, 3, 4, 6, 7, 9, 10} : isDigit(charAt(t, i))
  THEN LET y == digitsToInt(SubSeq(t, 1, 4))
           m == digitsToInt(SubSeq(t, 6, 7))
           d == digitsToInt(SubSeq(t, 9, 10))
       IN  IF m \in 1..12 /\ d >= 1 /\ d <= daysInMonth(y, m) /\ h <= 23
           THEN [valid |-> TRUE, y |-> y, m |-> m, d |-> d, h |-> h]
           ELSE InvalidDate
  ELSE InvalidDate

\* new Date(t) for the timestamps of the model: the date-only form
\* YYYY-MM-DD is that day at 00:00 UTC; the form of toISOString,
\* YYYY-MM-DDTHH:00:00.000Z, is that day at that hour UTC; a text of neither
\* form (here: one without digits, or empty) is an Invalid Date.
newDate(t) ==
  IF Len(t) = 10 THEN dateAt(t, 0)
  ELSE IF /\ Len(t) = 24
          /\ SubSeq(t, 11, 11) = "T" /\ SubSeq(t, 14, 24) = ":00:00.000Z"
          /\ isDigit(charAt(t, 12)) /\ isDigit(charAt(t, 13))
  THEN dateAt(SubSeq(t, 1, 10), digitsToInt(SubSeq(t, 12, 13)))
  ELSE InvalidDate

\* The time value of a date, as far as order goes.
timeOf(date) == date.y * 1000000 + date.m * 10000 + date.d * 100 + date.h

\* The calendar day before a date.
dayBefore(date) ==
  IF date.d > 1 THEN [date EXCEPT !.d = @ - 1]
  ELSE IF date.m > 1
  THEN [date EXCEPT !.m = @ - 1, !.d = daysInMonth(date.y, date.m - 1)]
  ELSE [date EXCEPT !.y = @ - 1, !.m = 12, !.d = 31]

\* The time zones of the model: UTC, and one that is five hours behind it.
TimeZones == {"UTC", "behind UTC"}
hoursBehind(tz) == IF tz = "UTC" THEN 0 ELSE 5

\* date.toLocaleDateString('en-US', {month: 'short', day: 'numeric',
\* year: 'numeric'}) in the time zone tz: the local calendar day is the UTC
\* day, or the day before while the UTC hour is less than the zone is behind.
formatDate(date, tz) ==
  LET local == IF date.h >= hoursBehind(tz) THEN date ELSE dayBefore(date)
  IN  MonthNames[local.m] \o " " \o ToString(local.d) \o ", "
        \o ToString(local.y)

processSummary(data, tz) ==
  const(SelectSeq([i \in 1..Len(data) |->
                     newDate(getValue(data[i], "timestamp"))],
                  LAMBDA date : date.valid),
    LAMBDA timestamps :
      LET minDate == timestamps[CHOOSE i \in 1..Len(timestamps) :
                       \A h \in 1..Len(timestamps) :
                         timeOf(timestamps[i]) <= timeOf(timestamps[h])]
          maxDate == timestamps[CHOOSE i \in 1..Len(timestamps) :
                       \A h \in 1..Len(timestamps) :
                         timeOf(timestamps[i]) >= timeOf(timestamps[h])]
      IN  [totalResponses |-> Len(data),
           dateRange |-> IF Len(timestamps) > 0
                         THEN formatDate(minDate, tz) \o " - "
                                \o formatDate(maxDate, tz)
                         ELSE "Unknown"])

(***************************************************************************)
(* processData                                                             *)
(***************************************************************************)
\* The argument of processData: null (or undefined), or an array of rows.
nullData == [isNull |-> TRUE, rows |-> <<>>]
array(rows) == [isNull |-> FALSE, rows |-> rows]

\* What a call does: it throws an Error with a message, or returns a value.
throw(message) == [threw |-> TRUE, message |-> message]
return(value) == [threw |-> FALSE, value |-> value]

\* What the call depends on besides its argument: the time zone of the
\* browser and the values Math.random() yields in shuffleArray.
Environments(raw) ==
  [tz : TimeZones,
   random : RandomChoices(IF raw.isNull THEN 0
                          ELSE Len(uniqueComments(raw.rows)))]

\* Mutant of reducers: wordCloud is given the result of processComments.
reducersWithCommentsAsWords(data, env) ==
  [summary         |-> processSummary(data, env.tz),
   rating          |-> processRating(data),
   pizzaPopularity |-> processPizzaPopularity(data),
   feelings        |-> processFeelings(data),
   orderAgain      |-> processOrderAgain(data),
   tiers           |-> processTiers(data),
   wordCloud       |-> processComments(data, env.random),
   coldPizza       |-> processColdPizza(data),
   comments        |-> processComments(data, env.random)]

reducers(data, env) ==
  [summary         |-> processSummary(data, env.tz),
   rating          |-> processRating(data),
   pizzaPopularity |-> processPizzaPopularity(data),
   feelings        |-> processFeelings(data),
   orderAgain      |-> processOrderAgain(data),
   tiers           |-> processTiers(data),
   wordCloud       |-> processWordCloud(data),
   coldPizza       |-> processColdPizza(data),
   comments        |-> processComments(data, env.random)]

\* Mutant of processData: a single row is rejected too.
processDataOfSeveral(raw, env) ==
  IF raw.isNull \/ Len(raw.rows) <= 1
  THEN throw("No data to process")
  ELSE return(reducers(raw.rows, env))

\* Mutant of processData: only a missing argument is rejected.
processDataOfAnyArray(raw, env) ==
  IF raw.isNull THEN throw("No data to process")
  ELSE return(reducers(raw.rows, env))

processData(raw, env) ==
  IF raw.isNull \/ Len(raw.rows) = 0
  THEN throw("No data to process")
  ELSE return(reducers(raw.rows, env))

(***************************************************************************)
(* Specification SpecAnswers: the four percentage reducers on answer rows  *)
(***************************************************************************)
MaxAnswers == 2
MaxBulk == 40

\* The answer column of each reducer (README names) with answers to it:
\* the offered choices, free text that spells keywords of two branches,
\* text with no keyword, the empty cell; for feelings, texts that differ in
\* case, spacing and emoji, a number and the name of an inherited property.
AnswerKinds == {"feeling", "orderAgain", "tier", "coldPizza"}

AnswerColumn ==
  [f \in AnswerKinds |->
    CASE f = "feeling" -> "How do you feel after eating?"
      [] f = "orderAgain" -> "Would you order again?"
      [] f = "tier" -> "Pizza tier ranking"
      [] f = "coldPizza" -> "Cold pizza preference"]

AnswerTexts ==
  [f \in AnswerKinds |->
    CASE f = "feeling" ->
           {"Pure joy ^", "pure joy", " PURE JOY ", "Regret ~", "^ Joy",
            "Happy regret ~^", "7", "constructor", ""}
      [] f = "orderAgain" ->
           {"Yes", "No", "Absolutely not", "Maybe", "Hmm", ""}
      [] f = "tier" ->
           {"Top Tier", "Solid Choice", "Mid", "Good, not the best",
            "Okay, pretty good", "Bad", ""}
      [] f = "coldPizza" ->
           {"Leftovers please!", "Sometimes, if desperate", "Never!",
            "Maybe never", "No, but I love it", "Cold?", ""}]

\* The two answers of a large survey.
BulkTexts ==
  [f \in AnswerKinds |->
    CASE f = "feeling" -> <<"Pure joy ^", "Regret ~">>
      [] f = "orderAgain" -> <<"Yes", "No">>
      [] f = "tier" -> <<"Top Tier", "Mid">>
      [] f = "coldPizza" -> <<"Leftovers please!", "Never!">>]

AnswerRow(f, t) == <<[k |-> AnswerColumn[f], v |-> t]>>

\* MaxBulk responses, the first n of them with the first answer.
BulkData(f, n) ==
  [i \in 1..MaxBulk |->
     AnswerRow(f, IF i <= n THEN BulkTexts[f][1] ELSE BulkTexts[f][2])]

\* The three choices of the reducers with three categories, and surveys of
\* up to MaxSplit responses split over them in every way.
MaxSplit == 8

SplitTexts ==
  [f \in {"tier", "coldPizza"} |->
    IF f = "tier" THEN <<"Top Tier", "Solid Choice", "Mid">>
    ELSE <<"Leftovers please!", "If desperate", "Never!">>]

SplitData(f, a, b, n) ==
  [i \in 1..n |->
     AnswerRow(f, IF i <= a THEN SplitTexts[f][1]
                  ELSE IF i <= a + b THEN SplitTexts[f][2]
                  ELSE SplitTexts[f][3])]

AnswerData ==
  UNION {SeqsOfLen({AnswerRow(f, t) : t \in AnswerTexts[f]}, n) :
           f \in AnswerKinds, n \in 1..MaxAnswers}
    \cup {BulkData(f, n) : f \in AnswerKinds, n \in 0..MaxBulk}
    \cup {SplitData(f, s[1], s[2], s[1] + s[2] + s[3]) :
            f \in DOMAIN SplitTexts,
            s \in {t \in (0..MaxSplit) \X (0..MaxSplit) \X (0..MaxSplit) :
                     t[1] + t[2] + t[3] \in 1..MaxSplit}}

AnswersInit ==
  /\ rawData \in AnswerData
  /\ processed = [done |-> FALSE]
  /\ ColIdle /\ DocIdle /\ AppIdle /\ CarIdle

ProcessFeelings ==
  /\ ~processed.done
  /\ processed' = [done |-> TRUE, reducer |-> "feeling",
                   out |-> processFeelings(rawData)]
  /\ UNCHANGED <<rawData, colVars, docVars, appVars, carVars>>

ProcessOrderAgain ==
  /\ ~processed.done
  /\ processed' = [done |-> TRUE, reducer |-> "orderAgain",
                   out |-> processOrderAgain(rawData)]
  /\ UNCHANGED <<rawData, colVars, docVars, appVars, carVars>>

ProcessTiers ==
  /\ ~processed.done
  /\ processed' = [done |-> TRUE, reducer |-> "tier",
                   out |-> processTiers(rawData)]
  /\ UNCHANGED <<rawData, colVars, docVars, appVars, carVars>>

ProcessColdPizza ==
  /\ ~processed.done
  /\ processed' = [done |-> TRUE, reducer |-> "coldPizza",
                   out |-> processColdPizza(rawData)]
  /\ UNCHANGED <<rawData, colVars, docVars, appVars, carVars>>

AnswersNext ==
  \/ ProcessFeelings
  \/ ProcessOrderAgain
  \/ ProcessTiers
  \/ ProcessColdPizza

SpecAnswers == AnswersInit /\ [][AnswersNext]_vars

(***************************************************************************)
(* Claims on the closed-set reducers and the percentages                   *)
(***************************************************************************)
\* The keyword k occurs in the text s as a substring.
Occurs(k, s) ==
  \E a \in 1..Len(s) : \E b \in a..Len(s) : SubSeq(s, a, b) = k

\* Rule j has a keyword that is a substring of the lower-cased text.
RuleHolds(rules, j, text) ==
  \E h \in 1..Len(rules[j].keywords) :
    Occurs(rules[j].keywords[h], toLowerCase(text))

\* The rows the reducer of field f must count in category j: those with a
\* non-empty answer for which j is the first rule that holds.
RowsOfCategory(f, rules, j) ==
  {i \in 1..Len(rawData) :
     /\ rawData[i][1].k = AnswerColumn[f]
     /\ rawData[i][1].v # ""
     /\ RuleHolds(rules, j, rawData[i][1].v)
     /\ \A h \in 1..(j - 1) : ~RuleHolds(rules, h, rawData[i][1].v)}

\* C6: orderAgain, tiers and coldPizza count a non-empty answer in the first
\* category, in rule order, that has a keyword contained in the lower-cased
\* text, and nowhere when there is none; 'Sometimes, if desperate' is counted
\* as 'If Desperate'.
C6_FirstMatchingCategory ==
  processed.done =>
    /\ processed.reducer = "orderAgain" =>
         /\ processed.out.yes.count =
              Cardinality(RowsOfCategory("orderAgain", OrderAgainRules, 1))
         /\ processed.out.meh.count =
              Cardinality(RowsOfCategory("orderAgain", OrderAgainRules, 2))
    /\ processed.reducer = "tier" =>
         \A j \in 1..3 :
           /\ processed.out.items[j].name = TierRules[j].category
           /\ processed.out.items[j].count =
                Cardinality(RowsOfCategory("tier", TierRules, j))
    /\ processed.reducer = "coldPizza" =>
         /\ \A j \in 1..3 :
              /\ processed.out.items[j].label = ColdPizzaRules[j].category
              /\ processed.out.items[j].count =
                   Cardinality(RowsOfCategory("coldPizza", ColdPizzaRules, j))
         /\ rawData = <<AnswerRow("coldPizza", "Sometimes, if desperate")>> =>
              /\ processed.out.items[2].label = "If Desperate"
              /\ processed.out.items[2].count = 1
              /\ processed.out.total = 1

\* C6 witness: two cold-pizza answers that spell keywords of the second and
\* the third rule were both counted as 'If Desperate'.
C6_Witness ==
  /\ processed.done
  /\ processed.reducer = "coldPizza"
  /\ rawData = <<AnswerRow("coldPizza", "Sometimes, if desperate"),
                 AnswerRow("coldPizza", "Maybe never")>>
  /\ processed.out.items[2].count = 2
  /\ processed.out.items[3].count = 0

\* The [count, percentage] pairs of a reducer's result.
PercentageFields ==
  IF processed.reducer = "orderAgain"
  THEN {processed.out.yes, processed.out.meh}
  ELSE {[count |-> processed.out.items[j].count,
         percentage |-> processed.out.items[j].percentage] :
          j \in 1..Len(processed.out.items)}

\* C10 (as claimed): every percentage field is an integer in 0..100 equal to
\* count / total * 100 rounded to the nearest integer (a half going up) for
\* the reducer's own total, and is 0 when that total is 0.
C10_PercentageIsRoundedShare ==
  processed.done =>
    \A p \in PercentageFields :
      /\ p.percentage \in 0..100
      /\ p.percentage =
           IF processed.out.total = 0 THEN 0
           ELSE (200 * p.count + processed.out.total)
                  \div (2 * processed.out.total)

\* The closed-set reducers, and the sum of the percentages of a result.
ClosedSetReducers == {"orderAgain", "tier", "coldPizza"}

PercentageSum ==
  IF processed.reducer = "orderAgain"
  THEN processed.out.yes.percentage + processed.out.meh.percentage
  ELSE sumCounts([j \in 1..Len(processed.out.items) |->
                    processed.out.items[j].percentage], 1)

NumberOfCategories ==
  IF processed.reducer = "orderAgain" THEN Len(OrderAgainRules)
  ELSE Len(processed.out.items)

\* The category counts of a closed-set result, in the order of the result.
CategoryCounts ==
  IF processed.reducer = "orderAgain"
  THEN <<processed.out.yes.count, processed.out.meh.count>>
  ELSE [j \in 1..Len(processed.out.items) |-> processed.out.items[j].count]

\* The rows with an answer to the reducer's question that is not empty and
\* has a keyword of some category.
MatchedRows(rules) ==
  {i \in 1..Len(rawData) :
     /\ rawData[i][1].k = AnswerColumn[processed.reducer]
     /\ rawData[i][1].v # ""
     /\ \E j \in 1..Len(rules) : RuleHolds(rules, j, rawData[i][1].v)}

\* C12: whatever the answers are, tiers.items is the three entries 'Top
\* Tier', 'Solid Choice', 'Mid' and coldPizza.items the three entries
\* 'Leftovers Please!', 'If Desperate', 'Never!', in that order; a reducer's
\* total is the sum of its category counts and is the number of rows that
\* matched a category: a row adds at most 1 and a row that matched none adds
\* nothing to a count or to the total.
C12_FixedCategoriesAndTotals ==
  (processed.done /\ processed.reducer \in ClosedSetReducers) =>
    /\ processed.reducer = "tier" =>
         [j \in 1..Len(processed.out.items) |-> processed.out.items[j].name]
           = <<"Top Tier", "Solid Choice", "Mid">>
    /\ processed.reducer = "coldPizza" =>
         [j \in 1..Len(processed.out.items) |-> processed.out.items[j].label]
           = <<"Leftovers Please!", "If Desperate", "Never!">>
    /\ processed.out.total = sumCounts(CategoryCounts, 1)
    /\ processed.out.total =
         Cardinality(MatchedRows(
           CASE processed.reducer = "orderAgain" -> OrderAgainRules
             [] processed.reducer = "tier" -> TierRules
             [] OTHER -> ColdPizzaRules))

\* C12 witness: of two tier answers one spells keywords of two categories
\* and the other of none: the three entries are there and the total is 1.
C12_Witness ==
  /\ processed.done
  /\ processed.reducer = "tier"
  /\ rawData = <<AnswerRow("tier", "Good, not the best"),
                 AnswerRow("tier", "Bad")>>
  /\ Len(processed.out.items) = 3
  /\ CategoryCounts = <<1, 0, 0>>
  /\ processed.out.total = 1

\* C11: for orderAgain (2 categories), tiers and coldPizza (3 categories),
\* when at least one row matched a category (total > 0) the percentages of
\* the categories add up to 100 give or take number of categories - 1.
C11_PercentagesSumNear100 ==
  (/\ processed.done
   /\ processed.reducer \in ClosedSetReducers
   /\ processed.out.total > 0) =>
    /\ PercentageSum >= 100 - (NumberOfCategories - 1)
    /\ PercentageSum <= 100 + (NumberOfCategories - 1)

\* C11 witness: three tier answers, one in each category, give three times
\* 33 percent.
C11_Witness ==
  /\ processed.done
  /\ processed.reducer = "tier"
  /\ processed.out.total = 3
  /\ \A j \in 1..3 : processed.out.items[j].count = 1
  /\ PercentageSum = 99

(***************************************************************************)
(* Claims on the feelings                                                  *)
(***************************************************************************)
\* The rows with a non-empty answer to the feeling question, and of these
\* the ones whose lower-cased, trimmed text is g.
FeelingRows ==
  {i \in 1..Len(rawData) :
     rawData[i][1].k = AnswerColumn["feeling"] /\ rawData[i][1].v # ""}

GroupOf(i) == trim(toLowerCase(rawData[i][1].v))

FeelingGroup(g) == {i \in FeelingRows : GroupOf(i) = g}

FirstOf(S) == CHOOSE i \in S : \A h \in S : i <= h

\* C16 (as claimed): processFeelings has one item for every lower-cased,
\* trimmed feeling text, which counts the rows with it and is labelled by
\* the first of them; the items are in descending order of count, total is
\* the sum of the counts and the number of rows with a non-empty feeling,
\* and every percentage is the rounded share of total.
C16_GroupedByLoweredTrimmedText ==
  (processed.done /\ processed.reducer = "feeling") =>
    LET items  == processed.out.items
        groups == {GroupOf(i) : i \in FeelingRows}
    IN  /\ Len(items) = Cardinality(groups)
        /\ \A g \in groups :
             \E j \in 1..Len(items) :
               /\ items[j].count = Cardinality(FeelingGroup(g))
               /\ items[j].feeling
                    = trim(replaceEmoji(rawData[FirstOf(FeelingGroup(g))][1].v))
        /\ \A j \in 1..Len(items) : \A k \in (j + 1)..Len(items) :
             items[j].count >= items[k].count
        /\ processed.out.total
             = sumCounts([j \in 1..Len(items) |-> items[j].count], 1)
        /\ processed.out.total = Cardinality(FeelingRows)
        /\ \A j \in 1..Len(items) :
             items[j].percentage
               = percentage(items[j].count, processed.out.total)

\* The keyword table of the claim, and the colour it gives a text: that of
\* the first keyword, in table order, that occurs in the text.
ClaimedColors ==
  <<<<"joy", "#F1C40F">>, <<"regret", "#E67E22">>, <<"shame", "#9B59B6">>,
    <<"happy", "#F1C40F">>, <<"satisfied", "#2ECC71">>>>

ClaimedColor(text) ==
  LET S == {j \in 1..Len(ClaimedColors) : Occurs(ClaimedColors[j][1], text)}
  IN  IF S = {} THEN "#F4D03F"
      ELSE ClaimedColors[CHOOSE j \in S : \A h \in S : j <= h][2]

\* The places of the emoji characters of a text.
EmojiPlaces(text) == {p \in 1..Len(text) : charAt(text, p) \in EmojiChars}

\* C17: every feelings item has the colour of the first keyword, in the
\* order joy, regret, shame, happy, satisfied, that the lower-cased text of
\* its first row contains, and the default colour when it contains none; its
\* emoji is the first emoji character of that text when there is one, and
\* its label is the text without emoji characters, trimmed.  The feeling
\* '(U+1F60D) Joy' gives {feeling: 'Joy', emoji: U+1F60D, color: '#F1C40F'}.
C17_ColourEmojiAndLabel ==
  (processed.done /\ processed.reducer = "feeling") =>
    /\ \A j \in 1..Len(processed.out.items) :
         \E g \in {GroupOf(i) : i \in FeelingRows} :
           LET text == rawData[FirstOf(FeelingGroup(g))][1].v
               item == processed.out.items[j]
           IN  /\ item.count = Cardinality(FeelingGroup(g))
               /\ item.color = ClaimedColor(toLowerCase(text))
               /\ EmojiPlaces(text) # {} =>
                    item.emoji = charAt(text, FirstOf(EmojiPlaces(text)))
               /\ EmojiPlaces(item.feeling) = {}
               /\ item.feeling = trim(replaceEmoji(text))
    /\ rawData = <<AnswerRow("feeling", "^ Joy")>> =>
         \E j \in 1..Len(processed.out.items) :
           /\ processed.out.items[j].feeling = "Joy"
           /\ processed.out.items[j].emoji = "^"
           /\ processed.out.items[j].color = "#F1C40F"

\* C17 witness: a feeling that spells 'happy' before 'regret' and holds two
\* emoji has the colour of regret, the first emoji and a label without emoji.
C17_Witness ==
  /\ processed.done /\ processed.reducer = "feeling"
  /\ rawData = <<AnswerRow("feeling", "Happy regret ~^")>>
  /\ Len(processed.out.items) = 1
  /\ processed.out.items[1].color = "#E67E22"
  /\ processed.out.items[1].emoji = "~"
  /\ processed.out.items[1].feeling = "Happy regret"

(***************************************************************************)
(* Specification SpecPizza: processPizzaPopularity on pizza answers        *)
(***************************************************************************)
MaxPizzaRows == 3

\* Answers to the multi-select pizza question: one or several choices with
\* either separator, aliases in any case, names outside the alias table (one
\* of them a number, one the name of an inherited property), separators only
\* and the empty cell.
PizzaTexts ==
  {"Pepperoni, Cheese", "pep", "Cheese", "PLAIN CHEESE;veggie", "bbq chicken",
   "42", "constructor", " , ;", ""}

PizzaRow(t) == <<[k |-> "Which pizza did you try?", v |-> t]>>

PizzaData ==
  UNION {SeqsOfLen({PizzaRow(t) : t \in PizzaTexts}, n) : n \in 1..MaxPizzaRows}

PizzaInit ==
  /\ rawData \in PizzaData
  /\ processed = [done |-> FALSE]
  /\ ColIdle /\ DocIdle /\ AppIdle /\ CarIdle

ProcessPizzaPopularity ==
  /\ ~processed.done
  /\ processed' = [done |-> TRUE, reducer |-> "pizzaType",
                   out |-> processPizzaPopularity(rawData)]
  /\ UNCHANGED <<rawData, colVars, docVars, appVars, carVars>>

PizzaNext == ProcessPizzaPopularity

SpecPizza == PizzaInit /\ [][PizzaNext]_vars

(***************************************************************************)
(* Claims on the pizza popularity                                          *)
(***************************************************************************)
\* The tokens of the answers, in row order and then token order: the pieces
\* between ',' and ';', trimmed, the empty ones dropped.
TokensOf(data) == flat([i \in 1..Len(data) |-> pizzasOf(data[i][1].v)], 1)

\* The name the claim gives a token: the alias table's for its lower-cased
\* text, else the token with its first letter in upper case.
ClaimedName(token) ==
  IF \E j \in 1..Len(PizzaMappings) :
       PizzaMappings[j].key = toLowerCase(token)
  THEN PizzaMappings[CHOOSE j \in 1..Len(PizzaMappings) :
                       PizzaMappings[j].key = toLowerCase(token)].name
  ELSE toUpperCase(charAt(token, 1)) \o SubSeq(token, 2, Len(token))

ClaimedNames(data) ==
  [t \in 1..Len(TokensOf(data)) |-> ClaimedName(TokensOf(data)[t])]

\* C13 (as claimed): the items are the names the tokens normalise to (alias
\* table on the lower-cased token, else first letter capitalised), each with
\* the number of tokens over all rows that normalise to it, and total is the
\* sum of the counts; rows 'Pepperoni, Cheese' and 'pep' give an item
\* {name: 'Pepperoni', count: 2}.
C13_CountsPerNormalisedName ==
  processed.done =>
    /\ {processed.out.items[j] : j \in 1..Len(processed.out.items)}
         = {[name |-> n, count |-> occurrences(ClaimedNames(rawData), n)] :
              n \in {ClaimedNames(rawData)[t] :
                       t \in 1..Len(ClaimedNames(rawData))}}
    /\ Len(processed.out.items)
         = Cardinality({ClaimedNames(rawData)[t] :
                          t \in 1..Len(ClaimedNames(rawData))})
    /\ processed.out.total
         = sumCounts([j \in 1..Len(processed.out.items) |->
                        processed.out.items[j].count], 1)
    /\ rawData = <<PizzaRow("Pepperoni, Cheese"), PizzaRow("pep")>> =>
         \E j \in 1..Len(processed.out.items) :
           processed.out.items[j] = [name |-> "Pepperoni", count |-> 2]

\* The names of the tokens as the reducer normalises them, in the order
\* encountered, and the place where a name is first encountered.
NamesSeen == [t \in 1..Len(TokensOf(rawData)) |->
                normalizePizzaName(TokensOf(rawData)[t])]

FirstSeen(name) ==
  CHOOSE t \in 1..Len(NamesSeen) :
    /\ NamesSeen[t] = name
    /\ \A h \in 1..(t - 1) : NamesSeen[h] # name

\* C14 (as claimed): the items are in descending order of count, and names
\* with the same count are in the order in which they were first encountered
\* (row order, then token order), also for names that are digit strings.
C14_SortedByCountThenFirstSeen ==
  processed.done =>
    \A j \in 1..Len(processed.out.items) :
      \A k \in (j + 1)..Len(processed.out.items) :
        /\ processed.out.items[j].count >= processed.out.items[k].count
        /\ processed.out.items[j].count = processed.out.items[k].count =>
             FirstSeen(processed.out.items[j].name)
               < FirstSeen(processed.out.items[k].name)

\* The number of tokens of an answer, counted on its characters: the pieces
\* between separators that hold a character other than white space.
SeparatorsBefore(text, i) ==
  Cardinality({h \in 1..(i - 1) : charAt(text, h) \in {",", ";"}})

TokenCount(text) ==
  Cardinality({SeparatorsBefore(text, i) :
                 i \in {h \in 1..Len(text) :
                          charAt(text, h) \notin {",", ";"} \cup WhiteSpace}})

TokensInRows ==
  sumCounts([i \in 1..Len(rawData) |-> TokenCount(rawData[i][1].v)], 1)

MaxWordRows == 2

\* An answer of fifty-one different words, one more than the cut keeps, and
\* a stop word.
ManyWords ==
  "aa ab ac ad ae af ag ah ai aj ak al am an ao ap aq ar as at au av aw ax ay az"
    \o " ba bb bc bd be bf bg bh bi bj bk bl bm bn bo bp bq br bs bt bu bv bw bx by bz"

\* Answers to the one-word question: a word in several cases, several words
\* with each separator and with runs of separators, stop words and single
\* letters, a number, the name of an inherited property, separators only,
\* the empty cell, and more words than the cut keeps.
WordTexts ==
  {"Cheesy", "CHEESY, cheesy", "The best/worst", "a b  hot;Hot", "42 it Its",
   "constructor", "Crispy constructor", " ,;/ ", "", ManyWords}

WordRow(t) == <<[k |-> "One word to describe", v |-> t]>>

WordData ==
  UNION {SeqsOfLen({WordRow(t) : t \in WordTexts}, n) : n \in 1..MaxWordRows}

WordInit ==
  /\ rawData \in WordData
  /\ processed = [done |-> FALSE]
  /\ ColIdle /\ DocIdle /\ AppIdle /\ CarIdle

ProcessWordCloud ==
  /\ ~processed.done
  /\ processed' = [done |-> TRUE, reducer |-> "oneWord",
                   out |-> processWordCloud(rawData)]
  /\ UNCHANGED <<rawData, colVars, docVars, appVars, carVars>>

WordNext == ProcessWordCloud

SpecWords == WordInit /\ [][WordNext]_vars

(***************************************************************************)
(* Claims on the word cloud                                                *)
(***************************************************************************)
\* The tokens of an answer, by the place where each starts: the maximal runs
\* of characters that are not white space, ',', ';' or '/'.
TokenStarts(text) ==
  {i \in 1..Len(text) :
     /\ charAt(text, i) \notin WordSeparators
     /\ i = 1 \/ charAt(text, i - 1) \in WordSeparators}

TokenAt(text, i) ==
  SubSeq(text, i,
         CHOOSE j \in i..Len(text) :
           /\ \A h \in i..j : charAt(text, h) \notin WordSeparators
           /\ j = Len(text) \/ charAt(text, j + 1) \in WordSeparators)

\* The tokens the claim counts, each as its row, its place in the answer, its
\* text and its lower-cased form: those of length 2 or more that are not
\* stop words.
WordsCounted ==
  {w \in UNION {{[row  |-> r, at |-> i,
                  text |-> TokenAt(rawData[r][1].v, i),
                  key  |-> toLowerCase(TokenAt(rawData[r][1].v, i))] :
                   i \in TokenStarts(rawData[r][1].v)} :
                  r \in 1..Len(rawData)} :
     Len(w.key) > 1 /\ w.key \notin stopWords}

\* The entries the claim gives the word cloud: one for each lower-cased form,
\* with the text of its first occurrence and the number of its occurrences.
ClaimedWords(counted) ==
  {[text  |-> w.text,
    count |-> Cardinality({o \in counted : o.key = w.key})] :
     w \in {o \in counted :
              \A e \in counted :
                e.key = o.key =>
                  \/ o.row < e.row
                  \/ o.row = e.row /\ o.at <= e.at}}

MaxCommentRows == 3

\* Comments of the model: kept ones, one that differs from a kept one in its
\* surrounding white space only, one of exactly 11 characters, one of
\* exactly 10, one longer than 10 characters before it is trimmed only, and
\* none.
CommentTexts ==
  {"Best pizza I ever had", "  Best pizza I ever had ", "Would order it again!",
   "Great crust", "Tasty pie!", "   Too bad    ", ""}

CommentRow(t) == <<[k |-> "Additional comments", v |-> t]>>

\* A survey of n responses with n different comments that are all kept.
LongSurveyLetters ==
  <<"a", "b", "c", "d", "e", "f", "g", "h", "i", "j", "k", "l">>
LongSurvey(n) ==
  [i \in 1..n |-> CommentRow("Survey comment " \o LongSurveyLetters[i])]

\* The surveys of the model: every short one, and long ones with exactly as
\* many comments as the carousel shows, one more and two more.
CommentData ==
  UNION {SeqsOfLen({CommentRow(t) : t \in CommentTexts}, n) :
           n \in 0..MaxCommentRows}
    \cup {LongSurvey(n) : n \in MaxComments..(MaxComments + 2)}

\* The values of Math.random() of the model in a shuffle of n elements:
\* every outcome for a short survey; for a long one, the outcomes where
\* every pass picks position k (or its own position when k is beyond it).
Shuffles(n) ==
  IF n <= MaxCommentRows THEN RandomChoices(n)
  ELSE {[i \in 1..(n - 1) |-> IF k <= i + 1 THEN k ELSE i + 1] : k \in 1..n}

CommentInit ==
  /\ rawData \in CommentData
  /\ processed = [done |-> FALSE]
  /\ ColIdle /\ DocIdle /\ AppIdle /\ CarIdle

\* processComments(rawData)
ProcessComments ==
  /\ ~processed.done
  /\ \E random \in Shuffles(Len(uniqueComments(rawData))) :
       processed' = [done |-> TRUE, reducer |-> "comments",
                     random |-> random,
                     out |-> processComments(rawData, random)]
  /\ UNCHANGED <<rawData, colVars, docVars, appVars, carVars>>

\* shuffleArray(unique), the call of processComments: `array` is the
\* argument and `arr` the array made by [...array], which is the only one
\* the loop writes to and the one returned.
ShuffleArray ==
  /\ ~processed.done
  /\ \E random \in Shuffles(Len(uniqueComments(rawData))) :
       processed' =
         const([array |-> uniqueComments(rawData),
                arr   |-> uniqueComments(rawData)],
           LAMBDA heap :
             [done |-> TRUE, reducer |-> "shuffleArray", random |-> random,
              argument |-> heap.array,
              array |-> heap.array,
              out |-> shuffleArray(heap.arr, random)])
  /\ UNCHANGED <<rawData, colVars, docVars, appVars, carVars>>

CommentNext == ProcessComments \/ ShuffleArray

SpecComments == CommentInit /\ [][CommentNext]_vars

(***************************************************************************)
(* Claims on the comments                                                  *)
(***************************************************************************)
\* The trimmed comments of trimmed length > 10 of the rows.
KeptComments ==
  {c \in {trim(getValue(rawData[i], "comments")) : i \in 1..Len(rawData)} :
     Len(c) > 10}

\* The arrangements of the elements of s in every order.
Orderings(s) ==
  {[p \in 1..Len(s) |-> s[f[p]]] :
     f \in {g \in [1..Len(s) -> 1..Len(s)] :
              \A a, b \in 1..Len(s) : g[a] = g[b] => a = b}}

IsPermutationOf(out, original) ==
  /\ Len(out) = Len(original)
  /\ \A x \in {original[p] : p \in 1..Len(original)} \cup {out[p] : p \in 1..Len(out)} :
       Cardinality({p \in 1..Len(out) : out[p] = x})
         = Cardinality({p \in 1..Len(original) : original[p] = x})

\* C19: for every input and every outcome of the shuffle, processComments
\* returns min(10, u) pairwise distinct strings, u being the number of
\* distinct trimmed comments of trimmed length > 10 of the input, each of
\* them such a comment; shuffleArray returns a permutation of its argument
\* and leaves the argument as it was; and every ordering of the unique
\* comments is the result of shuffleArray for some outcome of Math.random().
C19_CommentsDistinctAndShuffled ==
  /\ (processed.done /\ processed.reducer = "comments") =>
       /\ Len(processed.out)
            = (IF Cardinality(KeptComments) < 10
               THEN Cardinality(KeptComments) ELSE 10)
       /\ \A p \in 1..Len(processed.out) : processed.out[p] \in KeptComments
       /\ \A p, q \in 1..Len(processed.out) :
            processed.out[p] = processed.out[q] => p = q
  /\ (processed.done /\ processed.reducer = "shuffleArray") =>
       /\ IsPermutationOf(processed.out, processed.argument)
       /\ processed.array = processed.argument
  /\ (~processed.done /\ Len(rawData) <= MaxCommentRows) =>
       \A ordering \in Orderings(uniqueComments(rawData)) :
         \E random \in RandomChoices(Len(uniqueComments(rawData))) :
           shuffleArray(uniqueComments(rawData), random) = ordering

\* A survey with more kept comments than the carousel shows was processed,
\* and a shuffle of three comments has put the last one first.
C19_Witness ==
  /\ processed.done
  /\ \/ /\ processed.reducer = "comments"
        /\ Cardinality(KeptComments) > 10
        /\ Len(processed.out) = 10
        /\ processed.out[1] # trim(getValue(rawData[1], "comments"))
     \/ /\ processed.reducer = "shuffleArray"
        /\ Len(processed.argument) = 3
        /\ processed.out[1] = processed.argument[3]

(***************************************************************************)
(* Specification SpecData: processData on bounded surveys                  *)
(***************************************************************************)
MaxDataRows == 2

\* A response with the documented columns `present`, in the documented
\* order, and the answers `values` (one for each documented column).
Response(values, present) ==
  SelectSeq([c \in 1..Len(ReadmeColumns) |->
               [k |-> ReadmeColumns[c], v |-> values[c]]],
            LAMBDA cell : cell.k \in present)

AllColumns == {ReadmeColumns[c] : c \in 1..Len(ReadmeColumns)}

\* The responses of the model: a complete one; one with every cell empty; a
\* line cut after its second cell and an empty record; one whose answers are
\* unparseable, match no category or are too short; one that repeats a
\* comment; one with answers that spell inherited property names and numbers.
Responses ==
  {Response(<<"2024-10-15", "8", "Pepperoni, cheese", "Pure joy ^", "Yes",
              "Top Tier", "Cheesy goodness", "Never!",
              "Best pizza I ever had">>, AllColumns),
   Response(<<"", "", "", "", "", "", "", "", "">>, AllColumns),
   Response(<<"2024-03-01", "9", "", "", "", "", "", "", "">>,
            {"Timestamp", "Rate this pizza (1-10)"}),
   <<>>,
   Response(<<"soon", "bad", " ; ,", "", "Hmm", "Bad", "a / the", "Cold?",
              "Too short">>, AllColumns),
   Response(<<"2023-12-31", "10", "pep;Hawaii", "pure joy", "Absolutely",
              "Solid Choice", "cheesy", "Leftovers please!",
              " Best pizza I ever had ">>,
            AllColumns \ {"Pizza tier ranking", "Cold pizza preference"}),
   Response(<<"2024-01-01", "7.5", "constructor, 42", "constructor", "Maybe",
              "Mid", "constructor 42 tasty", "Sometimes, if desperate",
              "Would order it again!">>, AllColumns)}

DataInit ==
  /\ rawData \in UNION {SeqsOfLen(Responses, n) : n \in 0..MaxDataRows}
  /\ processed = [done |-> FALSE]
  /\ ColIdle /\ DocIdle /\ AppIdle /\ CarIdle

\* processData(rawData) on an array.
ProcessData ==
  /\ ~processed.done
  /\ \E env \in Environments(array(rawData)) :
       processed' = [done |-> TRUE, argument |-> "array", env |-> env,
                     out |-> processData(array(rawData), env)]
  /\ UNCHANGED <<rawData, colVars, docVars, appVars, carVars>>

\* processData(null), processData(undefined)
ProcessNoData ==
  /\ ~processed.done
  /\ rawData = <<>>
  /\ \E env \in Environments(nullData) :
       processed' = [done |-> TRUE, argument |-> "null", env |-> env,
                     out |-> processData(nullData, env)]
  /\ UNCHANGED <<rawData, colVars, docVars, appVars, carVars>>

DataNext == ProcessData \/ ProcessNoData

SpecData == DataInit /\ [][DataNext]_vars

(***************************************************************************)
(* Claims about processData on rows of strings                             *)
(***************************************************************************)
hasColumn(r, name) == \E j \in 1..Len(r) : r[j].k = name

\* The answer of row r in the documented column of field f, which r has.
answerTo(r, f) == r[rowAt(r, DocumentedColumn[f])].v

\* No branch of the reducer's chain takes the text.
matchesNoCategory(rules, text) == firstRule(rules, toLowerCase(text), 1) = 0

\* Row i of data is anomalous for field f: the column is missing, the rating
\* is unparseable, the text matches no category, the comment is short or
\* repeats the comment of an earlier row.
Anomalous(data, i, f) ==
  \/ ~hasColumn(data[i], DocumentedColumn[f])
  \/ /\ hasColumn(data[i], DocumentedColumn[f])
     /\ LET text == answerTo(data[i], f)
        IN  \/ f = "rating" /\ isNaN(parseFloat(text))
            \/ f = "orderAgain" /\ matchesNoCategory(OrderAgainRules, text)
            \/ f = "tier" /\ matchesNoCategory(TierRules, text)
            \/ f = "coldPizza" /\ matchesNoCategory(ColdPizzaRules, text)
            \/ f = "comments" /\ Len(trim(text)) <= 10
            \/ /\ f = "comments"
               /\ \E h \in 1..(i - 1) :
                    /\ hasColumn(data[h], DocumentedColumn[f])
                    /\ trim(answerTo(data[h], f)) = trim(text)

\* data without the rows that are anomalous for field f.
WithoutAnomalous(data, f) ==
  LET kept == SelectSeq([i \in 1..Len(data) |-> i],
                        LAMBDA i : ~Anomalous(data, i, f))
  IN  [e \in 1..Len(kept) |-> data[kept[e]]]

\* The aggregate of a result that the answers to field f go into.
aggregateOf(value, f) ==
  CASE f = "timestamp"  -> value.summary.dateRange
    [] f = "rating"     -> value.rating
    [] f = "pizzaType"  -> value.pizzaPopularity
    [] f = "feeling"    -> value.feelings
    [] f = "orderAgain" -> value.orderAgain
    [] f = "tier"       -> value.tiers
    [] f = "oneWord"    -> value.wordCloud
    [] f = "coldPizza"  -> value.coldPizza
    [] f = "comments"   -> value.comments

ResultFields ==
  {"summary", "rating", "pizzaPopularity", "feelings", "orderAgain", "tiers",
   "wordCloud", "coldPizza", "comments"}

ProcessedRows == processed.done /\ processed.argument = "array" /\ rawData # <<>>

\* C2: processData on a non-empty array of rows of strings, any column
\* possibly missing from any row, never throws and returns all nine fields,
\* and a row with a missing column, an unparseable rating, a text matching no
\* category, a short comment or a duplicate comment is only left out of the
\* affected aggregate: each aggregate is what the rows without that anomaly
\* alone give.
C2_AnomalousRowsOnlyLeftOut ==
  ProcessedRows =>
    /\ ~processed.out.threw
    /\ DOMAIN processed.out.value = ResultFields
    /\ \A i \in 1..Len(Fields) :
         aggregateOf(processed.out.value, Fields[i])
           = aggregateOf(reducers(WithoutAnomalous(rawData, Fields[i]),
                                  processed.env),
                         Fields[i])

\* The part of C2 that holds: no throw, nine fields.
C2_NineFieldsNoThrow ==
  ProcessedRows =>
    /\ ~processed.out.threw
    /\ DOMAIN processed.out.value = ResultFields

(***************************************************************************)
(* generateSampleData (dataLoader.js)                                      *)
(***************************************************************************)
\* The arrays the generator picks from.
SampleChoices ==
  [pizzaTypes |-> <<"Cheese", "Pepperoni", "Chicken Pesto", "Veggie Supreme",
                    "Meat Lovers">>,
   feelings   |-> <<"Joy", "Satisfied", "Shame", "Regret">>,
   orderAgain |-> <<"Yes, absolutely!", "Meh, maybe">>,
   tiers      |-> <<"Top Tier", "Solid Choice", "Mid">>,
   coldPizza  |-> <<"Leftovers Please!", "If Desperate", "Never!">>,
   oneWords   |-> <<"pillowy", "THICK", "thicc", "doughy", "Luxe", "cheesy",
                    "perfect", "heavenly", "greasy", "delicious", "amazing",
                    "crispy", "saucy", "gooey", "divine">>,
   comments   |-> <<"Best pizza I've ever had in my life!",
                    "The crust was perfectly crispy on the outside, soft inside.",
                    "I dream about this pizza at night.",
                    "Would definitely recommend to anyone who loves good food.",
                    "The cheese pull was absolutely insane.",
                    "Perfect balance of sauce and toppings.",
                    "This pizza changed my life, not kidding.",
                    "I've been searching for pizza like this for years.",
                    "The flavors just dance on your tongue.",
                    "My new comfort food, hands down.">>]

numResponses == 47

\* Math.random() yields u = k / RandomSteps for a k in 0..RandomSteps - 1;
\* every product and comparison of the generator is exact at that grain.
RandomSteps == 420

\* The draws of one response, in the order the loop body makes them.
Draws ==
  <<"numPizzas", "pizza 0", "pizza 1", "day", "rating", "feeling",
    "orderAgain", "tier", "oneWord", "coldPizza", "comment?", "comment">>

DrawNames == {Draws[i] : i \in 1..Len(Draws)}

\* The source of random numbers of the model: source[i][draw] is the k of
\* that draw of response i.
RandomSources ==
  {[i \in 1..numResponses |->
      [draw \in DrawNames |->
         LET n == CHOOSE j \in 1..Len(Draws) : Draws[j] = draw
         IN  (11 * i * i + 61 * n * i + 97 * n + 11) % RandomSteps]]}

\* Math.floor(Math.random() * n)
randomIndex(k, n) == (k * n) \div RandomSteps

pad2(n) == IF n < 10 THEN "0" \o ToString(n) ELSE ToString(n)

\* new Date(2025, 0, day).toISOString(): local midnight of the day, in UTC.
sampleTimestamp(day, tz) ==
  "2025-01-" \o pad2(day) \o "T" \o pad2(hoursBehind(tz)) \o ":00:00.000Z"

\* The body of the generator's loop for response i.
sampleResponse(u, tz) ==
  LET pick(from, draw) == from[randomIndex(u[draw], Len(from)) + 1]
      numPizzas == randomIndex(u["numPizzas"], 2) + 1
      first     == pick(SampleChoices.pizzaTypes, "pizza 0")
      second    == pick(SampleChoices.pizzaTypes, "pizza 1")
      selectedPizzas == IF numPizzas = 1 \/ second = first THEN first
                        ELSE first \o ", " \o second
  IN  Response(
        <<sampleTimestamp(randomIndex(u["day"], 28) + 1, tz),
          ToString(randomIndex(u["rating"], 4) + 6),
          selectedPizzas,
          pick(SampleChoices.feelings, "feeling"),
          SampleChoices.orderAgain[IF 10 * u["orderAgain"] > 3 * RandomSteps
                                   THEN 1 ELSE 2],
          pick(SampleChoices.tiers, "tier"),
          pick(SampleChoices.oneWords, "oneWord"),
          pick(SampleChoices.coldPizza, "coldPizza"),
          IF 10 * u["comment?"] > 6 * RandomSteps
          THEN pick(SampleChoices.comments, "comment") ELSE "">>,
        AllColumns)

generateSampleData(source, tz) ==
  [i \in 1..numResponses |-> sampleResponse(source[i], tz)]

(***************************************************************************)
(* Specification SpecTwice: processData run again on the same rows         *)
(***************************************************************************)
MaxRuns == 2

\* The responses whose comment is kept, and the empty record.
TwiceResponses ==
  {r \in Responses :
     Len(r) = 0 \/ Len(trim(getValue(r, "comments"))) > 10}

\* The rows handed to processData, the time zone of the browser, and no run
\* yet.
TwiceInit ==
  /\ rawData \in UNION {SeqsOfLen(TwiceResponses, n) : n \in 0..MaxDataRows}
  /\ \E tz \in TimeZones :
       processed = [given |-> rawData, tz |-> tz, runs |-> <<>>]
  /\ ColIdle /\ DocIdle /\ AppIdle /\ CarIdle

\* processData(rawData), once more: the reducers read the rows through
\* getValue and build their results in new objects and arrays, so the rows
\* are after the call what they were before it.
ProcessDataAgain ==
  /\ Len(processed.runs) < MaxRuns
  /\ \E random \in RandomChoices(Len(uniqueComments(rawData))) :
       processed' =
         [processed EXCEPT !.runs =
            Append(@, [random |-> random,
                       out |-> processData(array(rawData),
                                 [tz |-> processed.tz, random |-> random])])]
  /\ UNCHANGED <<rawData, colVars, docVars, appVars, carVars>>

TwiceNext == ProcessDataAgain

SpecTwice == TwiceInit /\ [][TwiceNext]_vars

(***************************************************************************)
(* Claims on repeated runs                                                 *)
(***************************************************************************)
\* The fields of the result that do not depend on the shuffle.
UnshuffledFields ==
  {"summary", "rating", "pizzaPopularity", "feelings", "orderAgain", "tiers",
   "wordCloud", "coldPizza"}

MaxEvents == 2
MaxUploadRows == 1

\* JavaScript's null for the module variables of main.js.
nullValue == [isNull |-> TRUE]
object(value) == [isNull |-> FALSE, value |-> value]

\* The two main.js of the repository: the first processes an upload at once,
\* the second asks for the pizza place and date first.
Scripts == {"main.js", "part_003"}

\* What results.data of Papa.parse can be for the files of the model: no
\* rows (a file with a header line only), or rows that are the complete
\* response or the cut line of Responses.
UploadRows ==
  {r \in Responses :
     \/ Len(r) = 2
     \/ Len(r) = Len(ReadmeColumns) /\ r[2].v = "8"}

Uploads == UNION {SeqsOfLen(UploadRows, n) : n \in 0..MaxUploadRows}

\* The values of the inputs of the modal, and the day new Date() gives.
PlaceInputs == {"", " Gino's "}
Today == "2025-02-01"
DateInputs == {"", Today}

\* The setTimeout calls of renderVisualizations, in the order made.
ChartTimers ==
  <<[delay |-> 100, create |-> "createRatingGauge",
     section |-> "hero-section", data |-> "rating"],
    [delay |-> 300, create |-> "createPizzaPopularityChart",
     section |-> "popularity-section", data |-> "pizzaPopularity"],
    [delay |-> 400, create |-> "createOrderAgainChart",
     section |-> "order-section", data |-> "orderAgain"],
    [delay |-> 500, create |-> "createEmojiCards",
     section |-> "emoji-section", data |-> "feelings"],
    [delay |-> 600, create |-> "createTierRanking",
     section |-> "tier-section", data |-> "tiers"],
    [delay |-> 700, create |-> "createWordCloud",
     section |-> "wordcloud-section", data |-> "wordCloud"],
    [delay |-> 800, create |-> "createColdPizzaChart",
     section |-> "cold-pizza-section", data |-> "coldPizza"],
    [delay |-> 900, create |-> "createCommentsCarousel",
     section |-> "comments-section", data |-> "comments"]>>

ChartCreators == {ChartTimers[i].create : i \in 1..Len(ChartTimers)}

\* A pending callback: the function to call, what it is called on, and the
\* delay it was scheduled with.
timer(delay, callback, target, argument) ==
  [delay |-> delay, callback |-> callback, target |-> target,
   argument |-> argument]

isChartTimer(t) == t.callback \in ChartCreators

(***************************************************************************)
(* commentsCarousel.js                                                     *)
(***************************************************************************)
\* The module variables, the carousels rendered and the interval timers that
\* are alive, as the functions of the module read and write them.
\*   sections[s]  : a #comments-section element: whether it is in the
\*                  document and what createCommentsCarousel last put in it
\*                  (nothing, the 'No comments available' card, or a
\*                  carousel);
\*   carousels[k] : the cards and dots a call of initCarousel holds in its
\*                  closures, with totalSlides and the element it was given;
\*   intervals    : for each timer its id and the carousel of its callback.
nothing == [kind |-> "", carousel |-> 0]
noComments == [kind |-> "No comments available", carousel |-> 0]
carouselCard(k) == [kind |-> "carousel-card", carousel |-> k]

carousel ==
  [currentSlide |-> currentSlide, autoplayInterval |-> autoplayInterval,
   sections |-> sections, carousels |-> carousels, intervals |-> intervals]

\* setInterval returns an id that no timer alive has.
setInterval(st, k) ==
  const(CHOOSE id \in 1..(Cardinality(st.intervals) + 1) :
          \A t \in st.intervals : t.id # id,
    LAMBDA id :
      [st EXCEPT !.autoplayInterval = object(id),
                 !.intervals = @ \cup {[id |-> id, carousel |-> k]}])

\* if (autoplayInterval) { clearInterval(autoplayInterval);
\*                         autoplayInterval = null; }
clearAutoplay(st) ==
  IF st.autoplayInterval.isNull THEN st
  ELSE [st EXCEPT !.intervals = {t \in @ : t.id # st.autoplayInterval.value},
                  !.autoplayInterval = nullValue]

\* goToSlide(index, cards, dots, track) with the cards and dots of carousel k
goToSlide(st, k, index) ==
  [st EXCEPT !.currentSlide = index,
             !.carousels[k].cards =
                {i \in 0..(st.carousels[k].totalSlides - 1) : i = index},
             !.carousels[k].dots =
                {i \in 0..(st.carousels[k].totalSlides - 1) : i = index}]

\* Mutant of previousSlide: (currentSlide - 1) % totalSlides, which is
\* negative for the first slide.
previousSlideNegative(st, k) ==
  IF st.currentSlide = 0 THEN -1 ELSE st.currentSlide - 1

previousSlide(st, k) ==
  (st.currentSlide - 1 + st.carousels[k].totalSlides)
    % st.carousels[k].totalSlides

nextSlide(st, k) == (st.currentSlide + 1) % st.carousels[k].totalSlides

\* Mutant of startAutoplay: without `if (autoplayInterval) return;`.
startAutoplayAgain(st, k) == setInterval(st, k)

startAutoplay(st, k) ==
  IF ~st.autoplayInterval.isNull THEN st ELSE setInterval(st, k)

resetAutoplay(st, k) == startAutoplay(clearAutoplay(st), k)

\* handleSwipe(startX, endX, ...): diff = startX - endX against the
\* threshold of 50.
SwipeThreshold == 50
handleSwipe(st, k, diff) ==
  resetAutoplay(IF diff > SwipeThreshold THEN goToSlide(st, k, nextSlide(st, k))
                ELSE IF diff < -SwipeThreshold
                THEN goToSlide(st, k, previousSlide(st, k))
                ELSE st,
                k)

destroyCarousel(st) == [clearAutoplay(st) EXCEPT !.currentSlide = 0]

\* initCarousel(container, totalSlides) for the carousel k just rendered:
\* currentSlide = 0, the listeners are added and autoplay is started.
initCarousel(st, k) == startAutoplay([st EXCEPT !.currentSlide = 0], k)

\* createCommentsCarousel(container, comments) on the element sections[s].
createCommentsCarousel(st, s, comments) ==
  IF Len(comments) = 0
  THEN [st EXCEPT !.sections[s].content = noComments]
  ELSE initCarousel(
         [st EXCEPT !.sections[s].content = carouselCard(Len(st.carousels) + 1),
                    !.carousels =
                       Append(@, [container |-> s,
                                  totalSlides |-> Len(comments),
                                  cards |-> {0}, dots |-> {0}])],
         Len(st.carousels) + 1)

\* The listeners that initCarousel added to the element sections[s] itself
\* (keydown, mouseenter, mouseleave), in the order added: one of each for
\* every carousel rendered in it; they stay when its content is replaced.
listenersOf(st, s) ==
  SelectSeq([k \in 1..Len(st.carousels) |-> k],
            LAMBDA k : st.carousels[k].container = s)

\* The keydown listener of carousel k.
keydown(st, k, key) ==
  IF key = "ArrowLeft"
  THEN resetAutoplay(goToSlide(st, k, previousSlide(st, k)), k)
  ELSE IF key = "ArrowRight"
  THEN resetAutoplay(goToSlide(st, k, nextSlide(st, k)), k)
  ELSE st

\* The mouseenter and mouseleave listeners of carousel k.
mouseenter(st, k) == clearAutoplay(st)
mouseleave(st, k) == startAutoplay(st, k)

\* An event on the element (a keydown with its key, a mouseenter or a
\* mouseleave): its listeners run in the order added.
RECURSIVE dispatch(_, _, _, _)
dispatch(st, listeners, i, event) ==
  IF i > Len(listeners) THEN st
  ELSE dispatch(CASE event = "mouseenter" -> mouseenter(st, listeners[i])
                  [] event = "mouseleave" -> mouseleave(st, listeners[i])
                  [] OTHER -> keydown(st, listeners[i], event),
                listeners, i + 1, event)

\* document.getElementById('comments-section'): the element in the
\* document, 0 for null.
commentsSection ==
  IF \E s \in 1..Len(sections) : sections[s].attached
  THEN CHOOSE s \in 1..Len(sections) : sections[s].attached
  ELSE 0

\* The carousel whose buttons, dots and track are in the document, 0 for
\* none.
displayed ==
  IF commentsSection = 0 THEN 0
  ELSE sections[commentsSection].content.carousel

Becomes(st) ==
  /\ currentSlide' = st.currentSlide
  /\ autoplayInterval' = st.autoplayInterval
  /\ sections' = st.sections
  /\ carousels' = st.carousels
  /\ intervals' = st.intervals

\* The content of #infographic is rebuilt: the #comments-section before
\* leaves the document and a new, empty one is in it.
rebuilt(elements) ==
  [s \in 1..(Len(elements) + 1) |->
     IF s <= Len(elements) THEN [elements[s] EXCEPT !.attached = FALSE]
     ELSE [attached |-> TRUE, content |-> nothing]]

\* infographicSection.innerHTML = '': no #comments-section is in the document.
removed(elements) ==
  [s \in 1..Len(elements) |-> [elements[s] EXCEPT !.attached = FALSE]]

\* renderVisualizations(data): eight timers, each holding its part of data.
renderVisualizations(data) ==
  [i \in 1..Len(ChartTimers) |->
     timer(ChartTimers[i].delay, ChartTimers[i].create,
           ChartTimers[i].section, data[ChartTimers[i].data])]

\* hideUploadSection(): an animation of 500 ms whose complete callback sets
\* display to 'none'.
hideUploadSection == <<timer(500, "complete", "upload-section", "none")>>

\* showInfographic(data): the content is rebuilt with empty sections (for
\* part_003 with the banner of data.pizzaInfo) and the section made visible.
showInfographic(data) ==
  [visible   |-> TRUE,
   innerHTML |-> "container",
   pizzaInfo |-> IF "pizzaInfo" \in DOMAIN data THEN data.pizzaInfo
                 ELSE nullValue,
   charts    |-> <<>>]

NoInfographic == [visible |-> FALSE, innerHTML |-> ""]

\* Rebuilding or emptying the infographic removes the messages inside it.
outside(messages) == SelectSeq(messages, LAMBDA e : ~e.inside)

\* showError(message): the message is put first in the first .container of
\* the document, else in the body, with a timer of 5 s that removes it.  The
\* infographic's container is the first one when the page has none before.
ErrorMessage(error) == "Error processing data: " \o error.message

errorDiv(message, id) ==
  [id |-> id, message |-> message,
   inside |-> /\ page.container = "infographic"
              /\ infographicSection.innerHTML # ""]

removeErrorTimer(id) == <<timer(5000, "remove", "error-message", id)>>

\* { ...processedData, pizzaInfo: currentPizzaInfo }
withPizzaInfo(value, info) == [pizzaInfo |-> info] @@ value

\* The try block and the catch block that both main.js wrap processData in:
\* the first handlePizzaInfoSubmit and loadSampleData of part_003,
\* handleDataLoaded of main.js.  `out` is what processData did.
Processed(out, keep) ==
  IF out.threw
  THEN /\ errors' = <<errorDiv(ErrorMessage(out), events + 1)>> \o errors
       /\ timers' = timers \o removeErrorTimer(events + 1)
       /\ UNCHANGED <<uploadSection, infographicSection,
                      currentProcessedData, carVars>>
  ELSE LET data == IF keep THEN withPizzaInfo(out.value, currentPizzaInfo')
                   ELSE out.value
       IN  /\ currentProcessedData' =
                IF keep THEN object(data) ELSE currentProcessedData
           /\ infographicSection' = showInfographic(data)
           /\ errors' = IF infographicSection.innerHTML # ""
                        THEN outside(errors) ELSE errors
           /\ timers' = timers \o hideUploadSection
                          \o renderVisualizations(data)
           /\ sections' = rebuilt(sections)
           /\ hovering' = FALSE
           /\ UNCHANGED <<uploadSection, currentSlide, autoplayInterval,
                          carousels, intervals>>

AppInit ==
  /\ page \in [script : Scripts, timeZone : TimeZones,
               container : {"page", "infographic"}]
  /\ uploadSection = "" /\ modal = ""
  /\ infographicSection = NoInfographic
  /\ currentProcessedData = nullValue
  /\ currentPizzaInfo = nullValue
  /\ pendingRawData = nullData
  /\ timers = <<>> /\ errors = <<>> /\ events = 0
  /\ ColIdle /\ DocIdle /\ DataIdle /\ CarIdle

\* A file is dropped or chosen and parsed: handleDataLoaded(data, file.name).
\* main.js processes it; part_003 keeps it and shows the modal.
handleDataLoaded(file) ==
  /\ events < MaxEvents
  /\ events' = events + 1
  /\ IF page.script = "main.js"
     THEN /\ \E env \in Environments(array(file)) :
               /\ env.tz = page.timeZone
               /\ Processed(processData(array(file), env), FALSE)
          /\ UNCHANGED <<modal, currentPizzaInfo, pendingRawData>>
     ELSE /\ pendingRawData' = array(file)
          /\ modal' = "flex"
          /\ UNCHANGED <<uploadSection, infographicSection,
                         currentProcessedData, currentPizzaInfo, timers,
                         errors, carVars>>
  /\ UNCHANGED <<page>>

\* A click on #pizza-info-submit (part_003).
handlePizzaInfoSubmit ==
  /\ events < MaxEvents
  /\ page.script = "part_003"
  /\ events' = events + 1
  /\ \E placeInput \in PlaceInputs, dateInput \in DateInputs :
       currentPizzaInfo' =
         object([place |-> IF trim(placeInput) # "" THEN trim(placeInput)
                           ELSE "Mystery Pizza",
                 date  |-> IF dateInput # "" THEN dateInput ELSE Today])
  /\ modal' = "none"
  /\ \E env \in Environments(pendingRawData) :
       /\ env.tz = page.timeZone
       /\ Processed(processData(pendingRawData, env), TRUE)
  /\ UNCHANGED <<page, pendingRawData>>

\* The shuffles of the model for the comments of sample data: every comment
\* stays in place, or every comment is swapped with the first.
SampleShuffles(n) ==
  {[i \in 1..(n - 1) |-> i + 1], [i \in 1..(n - 1) |-> 1]}

\* processData(generateSampleData()) in time zone tz, for each shuffle.
sampleOutcomes(sampleData, tz) ==
  {[tz  |-> tz,
    out |-> processData(array(sampleData), [tz |-> tz, random |-> random])] :
     random \in SampleShuffles(Len(uniqueComments(sampleData)))}

\* What processData(generateSampleData()) can do in each time zone.
SampleOutcomes ==
  UNION {sampleOutcomes(generateSampleData(source, tz), tz) :
           source \in RandomSources, tz \in TimeZones}

\* A click on #sample-data-btn, or Ctrl/Cmd + Enter: loadSampleData().
loadSampleData ==
  /\ events < MaxEvents
  /\ events' = events + 1
  /\ currentPizzaInfo' =
       IF page.script = "main.js" THEN currentPizzaInfo
       ELSE object([place |-> "Tony's Famous Pizzeria", date |-> Today])
  /\ \E sample \in SampleOutcomes :
       /\ sample.tz = page.timeZone
       /\ Processed(sample.out, page.script # "main.js")
  /\ UNCHANGED <<page, modal, pendingRawData>>

\* window.resetToUpload()
resetToUpload ==
  /\ events < MaxEvents
  /\ events' = events + 1
  /\ Becomes([destroyCarousel(carousel) EXCEPT !.sections = removed(@)])
  /\ hovering' = FALSE
  /\ infographicSection' = NoInfographic
  /\ errors' = IF infographicSection.innerHTML # ""
               THEN outside(errors) ELSE errors
  /\ uploadSection' = "flex"
  /\ UNCHANGED <<page, modal, currentProcessedData, currentPizzaInfo,
                 pendingRawData, timers>>

\* The callbacks that can run next: one runs before another when it was
\* scheduled no later and with no longer a delay.  The end of an animation
\* is not ordered with the timers.
due(i) ==
  \/ timers[i].callback = "complete"
  \/ \A j \in 1..(i - 1) :
       timers[j].callback = "complete" \/ timers[j].delay > timers[i].delay

without(i) == SubSeq(timers, 1, i - 1) \o SubSeq(timers, i + 1, Len(timers))

\* A chart timer fires: create...(document.getElementById(section), data).
\* Without the section the callback throws and nothing is drawn.
createChart ==
  \E i \in 1..Len(timers) :
    /\ isChartTimer(timers[i]) /\ due(i)
    /\ timers' = without(i)
    /\ IF timers[i].callback = "createCommentsCarousel" /\ commentsSection # 0
       THEN /\ Becomes(createCommentsCarousel(carousel, commentsSection,
                                              timers[i].argument))
            /\ UNCHANGED hovering
       ELSE UNCHANGED carVars
    /\ infographicSection' =
         IF infographicSection.innerHTML = "" THEN infographicSection
         ELSE [infographicSection EXCEPT
                 !.charts = SelectSeq(@, LAMBDA c :
                                           c.section # timers[i].target)
                              \o <<[section |-> timers[i].target,
                                    create  |-> timers[i].callback,
                                    data    |-> timers[i].argument]>>]
    /\ UNCHANGED <<page, uploadSection, modal, currentProcessedData,
                   currentPizzaInfo, pendingRawData, errors, events>>

\* The timer of showError fires: errorDiv.remove()
removeError ==
  \E i \in 1..Len(timers) :
    /\ timers[i].callback = "remove" /\ due(i)
    /\ timers' = without(i)
    /\ errors' = SelectSeq(errors, LAMBDA e : e.id # timers[i].argument)
    /\ UNCHANGED <<page, uploadSection, infographicSection, modal,
                   currentProcessedData, currentPizzaInfo, pendingRawData,
                   events, carVars>>

\* The animation of hideUploadSection ends: display = 'none'
uploadSectionHidden ==
  \E i \in 1..Len(timers) :
    /\ timers[i].callback = "complete"
    /\ timers' = without(i)
    /\ uploadSection' = timers[i].argument
    /\ UNCHANGED <<page, infographicSection, modal, currentProcessedData,
                   currentPizzaInfo, pendingRawData, errors, events, carVars>>

\* A click on the button of an error message: this.parentElement.remove()
dismissError ==
  /\ events < MaxEvents
  /\ events' = events + 1
  /\ \E i \in 1..Len(errors) :
       errors' = SubSeq(errors, 1, i - 1) \o SubSeq(errors, i + 1, Len(errors))
  /\ UNCHANGED <<page, uploadSection, infographicSection, modal,
                 currentProcessedData, currentPizzaInfo, pendingRawData,
                 timers, carVars>>

\* The steps of the page leave the variables of the other specifications.
AppFrame == UNCHANGED <<colVars, docVars, dataVars>>

HandleDataLoaded == \E file \in Uploads : handleDataLoaded(file) /\ AppFrame
HandlePizzaInfoSubmit == handlePizzaInfoSubmit /\ AppFrame
LoadSampleData == loadSampleData /\ AppFrame
ResetToUpload == resetToUpload /\ AppFrame
CreateChart == createChart /\ AppFrame
RemoveError == removeError /\ AppFrame
UploadSectionHidden == uploadSectionHidden /\ AppFrame
DismissError == dismissError /\ AppFrame

AppNext ==
  \/ HandleDataLoaded
  \/ HandlePizzaInfoSubmit
  \/ LoadSampleData
  \/ ResetToUpload
  \/ CreateChart
  \/ RemoveError
  \/ UploadSectionHidden
  \/ DismissError

SpecApp == AppInit /\ [][AppNext]_vars

(***************************************************************************)
(* Claims about the page                                                   *)
(***************************************************************************)
\* !rawData || rawData.length === 0
noData(raw) == raw.isNull \/ Len(raw.rows) = 0

\* An entry point calls processData without data: main.js on an upload
\* without rows, part_003 on a submit with no upload or one without rows.
ProcessesNoData ==
  \/ page.script = "main.js" /\ handleDataLoaded(<<>>)
  \/ noData(pendingRawData) /\ handlePizzaInfoSubmit

chartTimers(pending) == SelectSeq(pending, isChartTimer)

\* C1: processData without data (null, or an array without rows) throws 'No
\* data to process', and each entry point that calls it so catches the error
\* and shows it: the message is displayed, the infographic is left as it was
\* (none is shown) and no chart timer is scheduled.
C1_NoDataIsCaughtAndShown ==
  [][ProcessesNoData =>
        /\ Len(errors') = Len(errors) + 1
        /\ errors'[1].message = "Error processing data: No data to process"
        /\ infographicSection' = infographicSection
        /\ chartTimers(timers') = chartTimers(timers)]_vars

\* An upload without rows was submitted in part_003: the message is on the
\* page, no infographic is visible and no chart timer is pending.
C1_Witness ==
  /\ page.script = "part_003"
  /\ pendingRawData = array(<<>>) /\ modal = "none"
  /\ Len(errors) = 1
  /\ errors[1].message = "Error processing data: No data to process"
  /\ ~infographicSection.visible
  /\ chartTimers(timers) = <<>>

(***************************************************************************)
(* Claims on the result held by the page                                   *)
(***************************************************************************)
\* copyShareLink(): `if (!currentProcessedData) return;` - it does nothing.
copyShareLinkDoesNothing == currentProcessedData.isNull

\* A submit of the modal or a sample load of part_003 that processed its
\* data: no error message was added.
NewDataSetProcessed ==
  /\ page.script = "part_003"
  /\ HandlePizzaInfoSubmit \/ LoadSampleData
  /\ Len(errors') <= Len(errors)

\* The charts scheduled last are drawn from the result that is held.
HeldResultIsShown ==
  /\ ~currentProcessedData.isNull
  /\ currentProcessedData.value.pizzaInfo = currentPizzaInfo
  /\ Len(timers) >= Len(ChartTimers)
  /\ \A i \in 1..Len(ChartTimers) :
       timers[Len(timers) - Len(ChartTimers) + i].argument
         = currentProcessedData.value[ChartTimers[i].data]

\* C22: the result held by the page is discarded on reset: after
\* resetToUpload currentProcessedData is cleared, so that copyShareLink does
\* nothing until a new data set has been processed; and after a new upload
\* or sample load that succeeds, the held result is that of the new data.
C22_ResultDiscardedOnReset ==
  [][/\ ResetToUpload =>
          currentProcessedData' = nullValue /\ copyShareLinkDoesNothing'
     /\ NewDataSetProcessed => HeldResultIsShown']_vars

(***************************************************************************)
(* Claims on the chart timers                                              *)
(***************************************************************************)
\* document.getElementById(section) is null: the sections are the content
\* of #infographic, which resetToUpload empties.
containerMissing == infographicSection.innerHTML = ""

\* A chart timer fires: its callback runs and it is no longer pending.
ChartTimerFires == Len(chartTimers(timers')) < Len(chartTimers(timers))

\* The number of pending timers of the i-th creator of renderVisualizations.
pendingOf(i) ==
  Len(SelectSeq(timers, LAMBDA t : t.callback = ChartTimers[i].create))

\* In every call of renderVisualizations a creator has run only after the
\* creators scheduled before it: no more timers are pending of an earlier
\* creator than of a later one.
RunInFixedOrder ==
  \A i \in 1..(Len(ChartTimers) - 1) : pendingOf(i) <= pendingOf(i + 1)

\* C27: every chart-creation callback scheduled by renderVisualizations runs
\* while the section it targets exists (a resetToUpload after
\* showInfographic and before the last timer never makes a creator run with
\* a missing container), and the eight creators run in the fixed order
\* rating, popularity, orderAgain, feelings, tiers, wordCloud, coldPizza,
\* comments.
C27_ChartsRunWithTheirSections ==
  [][ChartTimerFires => ~containerMissing /\ RunInFixedOrder']_vars

(***************************************************************************)
(* The share link (part_003): minifyDataForSharing and expandMinifiedData  *)
(***************************************************************************)
\* array.slice(0, n)
slice(s, n) == SubSeq(s, 1, IF Len(s) < n THEN Len(s) ELSE n)

\* data.name, or undefined: the || of the caller then gives `otherwise`.
fieldOr(data, name, otherwise) ==
  IF name \in DOMAIN data THEN data[name] ELSE otherwise

\* data.pizzaInfo?.name || ''
pizzaInfoOr(data, name) ==
  IF "pizzaInfo" \in DOMAIN data /\ ~data.pizzaInfo.isNull
  THEN data.pizzaInfo.value[name] ELSE ""

\* (data.name?.items || [])
itemsOr(data, name) ==
  IF name \in DOMAIN data THEN data[name].items ELSE <<>>

\* The cuts of minifyDataForSharing.
SharedPizzas == 6
SharedFeelings == 4
SharedWords == 15
SharedComments == 3

minifyDataForSharing(data) ==
  [p  |-> pizzaInfoOr(data, "place"),
   d  |-> pizzaInfoOr(data, "date"),
   r  |-> [a |-> IF "rating" \in DOMAIN data THEN data.rating.average
                 ELSE tenths(0),
           c |-> IF "rating" \in DOMAIN data THEN data.rating.count ELSE 0],
   pp |-> const(slice(itemsOr(data, "pizzaPopularity"), SharedPizzas),
            LAMBDA items :
              [j \in 1..Len(items) |-> <<items[j].name, items[j].count>>]),
   oa |-> IF "orderAgain" \in DOMAIN data
          THEN <<data.orderAgain.yes.count, data.orderAgain.meh.count>>
          ELSE <<0, 0>>,
   f  |-> const(slice(itemsOr(data, "feelings"), SharedFeelings),
            LAMBDA items :
              [j \in 1..Len(items) |-> <<items[j].feeling, items[j].count>>]),
   t  |-> const(itemsOr(data, "tiers"),
            LAMBDA items :
              [j \in 1..Len(items) |-> <<items[j].name, items[j].count>>]),
   w  |-> const(slice(fieldOr(data, "wordCloud", <<>>), SharedWords),
            LAMBDA items :
              [j \in 1..Len(items) |-> <<items[j].text, items[j].count>>]),
   cp |-> const(itemsOr(data, "coldPizza"),
            LAMBDA items :
              [j \in 1..Len(items) |-> <<items[j].label, items[j].count>>]),
   cm |-> slice(fieldOr(data, "comments", <<>>), SharedComments)]

\* The tables of expandMinifiedData (an emoji is written by its code point).
EMOJI_MAP ==
  <<[key |-> "No regrets, only joy", emoji |-> "U+1F970", color |-> "#2ECC71"],
    [key |-> "Slight shame", emoji |-> "U+1F605", color |-> "#9B59B6"],
    [key |-> "Why did I do this", emoji |-> "U+1F974", color |-> "#E74C3C"]>>

COLD_PREFS ==
  <<[key |-> "Leftovers Please!", emoji |-> "U+1F924", class |-> "hot",
     color |-> "#27AE60"],
    [key |-> "If Desperate", emoji |-> "U+1F937", class |-> "warm",
     color |-> "#F39C12"],
    [key |-> "Never!", emoji |-> "U+1F645", class |-> "cold",
     color |-> "#C0392B"]>>

TIER_INFO ==
  <<[key |-> "Top Tier", icon |-> "U+1F3C6", color |-> "#FFD700"],
    [key |-> "Solid Choice", icon |-> "U+1F948", color |-> "#C0C0C0"],
    [key |-> "Mid", icon |-> "U+1F949", color |-> "#CD7F32"]>>

\* TABLE[key]?.property || otherwise: an inherited property of the table has
\* no such property of its own, so it gives `otherwise` too.
lookupOr(table, key, property, otherwise) ==
  IF \E j \in 1..Len(table) : table[j].key = key
  THEN table[CHOOSE j \in 1..Len(table) : table[j].key = key][property]
  ELSE otherwise

\* pairs.reduce((s, i) => s + i[1], 0)
pairTotal(pairs) == sumCounts([j \in 1..Len(pairs) |-> pairs[j][2]], 1)

\* Mutant of shareOf: the share is not rounded to a
\* whole per cent but cut to the ten below.
shareOfTens(count, total) ==
  IF total # 0 THEN (percentage(count, total) \div 10) * 10 ELSE 0

\* total ? Math.round(count / total * 100) : 0
shareOf(count, total) == IF total # 0 THEN percentage(count, total) ELSE 0

expandMinifiedData(mini) ==
  const([ppTotal |-> pairTotal(mini.pp), fTotal |-> pairTotal(mini.f),
         tTotal |-> pairTotal(mini.t), cpTotal |-> pairTotal(mini.cp),
         oaTotal |-> mini.oa[1] + mini.oa[2]],
    LAMBDA totals :
      [pizzaInfo |-> object([place |-> mini.p, date |-> mini.d]),
       summary |-> [totalResponses |-> mini.r.c,
                    dateRange |-> "Survey Results"],
       rating |-> [average |-> mini.r.a, count |-> mini.r.c],
       pizzaPopularity |->
         [items |-> [j \in 1..Len(mini.pp) |->
                       [name |-> mini.pp[j][1], count |-> mini.pp[j][2]]],
          total |-> totals.ppTotal],
       orderAgain |->
         [yes |-> [count |-> mini.oa[1],
                   percentage |-> shareOf(mini.oa[1], totals.oaTotal)],
          meh |-> [count |-> mini.oa[2],
                   percentage |-> shareOf(mini.oa[2], totals.oaTotal)],
          total |-> totals.oaTotal],
       feelings |->
         [items |-> [j \in 1..Len(mini.f) |->
                       [feeling |-> mini.f[j][1],
                        count |-> mini.f[j][2],
                        percentage |-> shareOf(mini.f[j][2], totals.fTotal),
                        emoji |-> lookupOr(EMOJI_MAP, mini.f[j][1], "emoji",
                                           "U+1F60B"),
                        color |-> lookupOr(EMOJI_MAP, mini.f[j][1], "color",
                                           "#F4D03F")]],
          total |-> totals.fTotal],
       tiers |->
         [items |-> [j \in 1..Len(mini.t) |->
                       [name |-> mini.t[j][1],
                        count |-> mini.t[j][2],
                        percentage |-> shareOf(mini.t[j][2], totals.tTotal),
                        icon |-> lookupOr(TIER_INFO, mini.t[j][1], "icon",
                                          "U+1F3C5"),
                        color |-> lookupOr(TIER_INFO, mini.t[j][1], "color",
                                           "#999")]],
          total |-> totals.tTotal],
       wordCloud |-> [j \in 1..Len(mini.w) |->
                        [text |-> mini.w[j][1], count |-> mini.w[j][2]]],
       coldPizza |->
         [items |-> [j \in 1..Len(mini.cp) |->
                       [label |-> mini.cp[j][1],
                        count |-> mini.cp[j][2],
                        percentage |-> shareOf(mini.cp[j][2], totals.cpTotal),
                        color |-> lookupOr(COLD_PREFS, mini.cp[j][1], "color",
                                           "#999")]],
          total |-> totals.cpTotal],
       comments |-> mini.cm])

(***************************************************************************)
(* Specification SpecShare: a processed survey, minified and expanded      *)
(***************************************************************************)
MaxShareRows == 3

\* The responses whose answer to 'Would you order again?' is counted.
ShareResponses ==
  {r \in Responses :
     firstRule(OrderAgainRules, toLowerCase(getValue(r, "orderAgain")), 1) # 0}

\* The pizza place and date that handlePizzaInfoSubmit stores.
PizzaInfos ==
  {object([place |-> "Mystery Pizza", date |-> Today]),
   object([place |-> "Gino's", date |-> "2024-10-15"])}

\* An upload of part_003 waits for the modal to be submitted.
ShareInit ==
  /\ rawData \in UNION {SeqsOfLen(ShareResponses, n) : n \in 1..MaxShareRows}
  /\ processed = [done |-> FALSE]
  /\ page \in [script : {"part_003"}, timeZone : {"UTC"},
               container : {"page"}]
  /\ currentPizzaInfo \in PizzaInfos
  /\ currentProcessedData = nullValue
  /\ pendingRawData = array(rawData)
  /\ uploadSection = "" /\ modal = "flex"
  /\ infographicSection = NoInfographic
  /\ timers = <<>> /\ errors = <<>> /\ events = 0
  /\ ColIdle /\ DocIdle /\ CarIdle

\* The data is processed and kept with the pizza info
\* (handlePizzaInfoSubmit), and what is kept is minified for a link and
\* expanded again as the page opened with the link does.
ShareRoundTrip ==
  /\ ~processed.done
  /\ \E env \in Environments(pendingRawData) :
       /\ env.tz = page.timeZone
       /\ currentProcessedData' =
            object(withPizzaInfo(processData(pendingRawData, env).value,
                                 currentPizzaInfo))
  /\ processed' =
       const(minifyDataForSharing(currentProcessedData'.value),
         LAMBDA mini : [done |-> TRUE, mini |-> mini,
                        out |-> expandMinifiedData(mini)])
  /\ UNCHANGED <<rawData, colVars, docVars, carVars, page, uploadSection,
                 infographicSection, modal, currentPizzaInfo, pendingRawData,
                 timers, errors, events>>

ShareNext == ShareRoundTrip

SpecShare == ShareInit /\ [][ShareNext]_vars

(***************************************************************************)
(* Claims on the share link                                                *)
(***************************************************************************)
\* C21: the share encoding is lossless: expanding the minified form of a
\* result kept with its place and date gives back the place and date and all
\* nine fields of the result (summary, rating, pizzaPopularity, feelings,
\* orderAgain, tiers, wordCloud, coldPizza, comments).
C21_ShareRoundTripLossless ==
  processed.done =>
    /\ processed.out.pizzaInfo = currentProcessedData.value.pizzaInfo
    /\ \A name \in ResultFields :
         processed.out[name] = currentProcessedData.value[name]

\* C29: the orderAgain and coldPizza results of processData survive the
\* share round trip exactly: counts, percentages and total of orderAgain;
\* labels in order, counts, percentages, colours and total of coldPizza.
C29_OrderAgainAndColdPizzaSurvive ==
  processed.done =>
    /\ processed.out.orderAgain = currentProcessedData.value.orderAgain
    /\ processed.out.coldPizza = currentProcessedData.value.coldPizza

\* A survey with two yes in three answers and two cold pizza preferences went
\* through the round trip: percentages that are rounded are compared.
C29_Witness ==
  /\ processed.done
  /\ processed.out.orderAgain.total = 3
  /\ processed.out.orderAgain.yes.percentage = 67
  /\ processed.out.orderAgain.meh.percentage = 33
  /\ \E j \in 1..3 : processed.out.coldPizza.items[j].percentage = 50

(***************************************************************************)
(* Specification SpecCarousel: the comments carousel on the page           *)
(***************************************************************************)
MaxSections == 2
MaxSlides == 3

\* data.comments of a result with n comments.
Comments(n) == [i \in 1..n |-> "Best pizza I ever had"]

\* The timer of renderVisualizations that creates the carousel.
commentsTimer(comments) ==
  timer(ChartTimers[Len(ChartTimers)].delay, ChartTimers[Len(ChartTimers)].create,
        ChartTimers[Len(ChartTimers)].section, comments)

CarouselFrame ==
  UNCHANGED <<colVars, docVars, dataVars, page, uploadSection,
              infographicSection, modal, currentProcessedData,
              currentPizzaInfo, pendingRawData, errors, events>>

CarouselInit ==
  /\ CarIdle /\ ColIdle /\ DocIdle /\ DataIdle /\ AppIdle

\* showInfographic(data): the content of #infographic is rebuilt, with a new
\* empty #comments-section in place of the one before, and
\* renderVisualizations schedules createCommentsCarousel with data.comments.
ShowInfographic ==
  /\ Len(sections) < MaxSections
  /\ \E n \in 0..MaxSlides :
       timers' = Append(timers, commentsTimer(Comments(n)))
  /\ sections' = rebuilt(sections)
  /\ hovering' = FALSE
  /\ UNCHANGED <<currentSlide, autoplayInterval, carousels, intervals>>
  /\ CarouselFrame

\* resetToUpload(): destroyCarousel(), and the content of #infographic is
\* removed.
DestroyCarousel ==
  /\ Becomes([destroyCarousel(carousel) EXCEPT !.sections = removed(@)])
  /\ hovering' = FALSE
  /\ UNCHANGED timers
  /\ CarouselFrame

\* The timer fires: createCommentsCarousel(
\*   document.getElementById('comments-section'), data.comments).  Without
\* the element, `container.innerHTML = ...` throws before anything is done.
CreateCommentsCarousel ==
  /\ timers # <<>>
  /\ timers' = Tail(timers)
  /\ IF commentsSection = 0 THEN UNCHANGED carVars
     ELSE /\ Becomes(createCommentsCarousel(carousel, commentsSection,
                                            Head(timers).argument))
          /\ UNCHANGED hovering
  /\ CarouselFrame

\* A click on the button .carousel-btn.prev
ClickPrevious ==
  /\ displayed # 0
  /\ Becomes(resetAutoplay(goToSlide(carousel, displayed,
                                     previousSlide(carousel, displayed)),
                           displayed))
  /\ UNCHANGED <<timers, hovering>>
  /\ CarouselFrame

\* A click on the button .carousel-btn.next
ClickNext ==
  /\ displayed # 0
  /\ Becomes(resetAutoplay(goToSlide(carousel, displayed,
                                     nextSlide(carousel, displayed)),
                           displayed))
  /\ UNCHANGED <<timers, hovering>>
  /\ CarouselFrame

\* A click on a dot: goToSlide(parseInt(dot.dataset.index), ...)
ClickDot ==
  /\ displayed # 0
  /\ \E index \in 0..(carousels[displayed].totalSlides - 1) :
       Becomes(resetAutoplay(goToSlide(carousel, displayed, index),
                             displayed))
  /\ UNCHANGED <<timers, hovering>>
  /\ CarouselFrame

\* touchstart and touchend on the track, startX - endX apart.
SwipeDiffs == {-SwipeThreshold - 1, -SwipeThreshold, 0, SwipeThreshold,
               SwipeThreshold + 1}

Swipe ==
  /\ displayed # 0
  /\ \E diff \in SwipeDiffs : Becomes(handleSwipe(carousel, displayed, diff))
  /\ UNCHANGED <<timers, hovering>>
  /\ CarouselFrame

\* A key is pressed with the focus on a button of the carousel: the event
\* reaches the listeners of the section.
Keys == {"ArrowLeft", "ArrowRight", "Enter"}

keyDown(key) ==
  /\ displayed # 0
  /\ Becomes(dispatch(carousel, listenersOf(carousel, commentsSection), 1,
                      key))
  /\ UNCHANGED <<timers, hovering>>
  /\ CarouselFrame

KeyDown == \E key \in Keys : keyDown(key)

\* The pointer enters the section, which shows something.
MouseEnter ==
  /\ ~hovering
  /\ commentsSection # 0
  /\ sections[commentsSection].content # nothing
  /\ Becomes(dispatch(carousel, listenersOf(carousel, commentsSection), 1,
                      "mouseenter"))
  /\ hovering' = TRUE
  /\ UNCHANGED timers
  /\ CarouselFrame

\* The pointer leaves the section.
MouseLeave ==
  /\ hovering
  /\ Becomes(dispatch(carousel, listenersOf(carousel, commentsSection), 1,
                      "mouseleave"))
  /\ hovering' = FALSE
  /\ UNCHANGED timers
  /\ CarouselFrame

\* An interval timer fires: goToSlide((currentSlide + 1) % totalSlides, ...)
\* with the cards, dots and totalSlides of its closure.
AutoplayTick ==
  /\ \E t \in intervals :
       Becomes(goToSlide(carousel, t.carousel, nextSlide(carousel, t.carousel)))
  /\ UNCHANGED <<timers, hovering>>
  /\ CarouselFrame

CarouselNext ==
  \/ ShowInfographic
  \/ DestroyCarousel
  \/ CreateCommentsCarousel
  \/ ClickPrevious
  \/ ClickNext
  \/ ClickDot
  \/ Swipe
  \/ KeyDown
  \/ MouseEnter
  \/ MouseLeave
  \/ AutoplayTick

SpecCarousel == CarouselInit /\ [][CarouselNext]_vars

(***************************************************************************)
(* Claims on the comments carousel                                         *)
(***************************************************************************)
\* One carousel has been created, and it is the one in the document.
CreatedOnce == Len(carousels) = 1 /\ displayed = 1

\* C23: for a carousel created once with n >= 1 comments, after any
\* sequence of previous/next clicks, dot clicks, ArrowLeft/ArrowRight key
\* presses, swipes and autoplay ticks, currentSlide is in 0..n-1 and exactly
\* the card and the dot at index currentSlide are 'active'; ArrowRight and
\* next move to (currentSlide + 1) mod n, ArrowLeft and previous to
\* (currentSlide - 1 + n) mod n, so that previous after next gives the slide
\* before.
C23_SlideInRangeAndActive ==
  [][/\ CreatedOnce' =>
          /\ currentSlide' \in 0..(carousels'[1].totalSlides - 1)
          /\ carousels'[1].cards = {currentSlide'}
          /\ carousels'[1].dots = {currentSlide'}
     /\ (CreatedOnce /\ (ClickNext \/ keyDown("ArrowRight"))) =>
          /\ currentSlide' = (currentSlide + 1) % carousels[1].totalSlides
          /\ (currentSlide' - 1 + carousels[1].totalSlides)
                % carousels[1].totalSlides = currentSlide
     /\ (CreatedOnce /\ (ClickPrevious \/ keyDown("ArrowLeft"))) =>
          currentSlide' = (currentSlide - 1 + carousels[1].totalSlides)
                            % carousels[1].totalSlides]_vars

\* The only carousel created shows the last of its three comments.
C23_Witness ==
  /\ CreatedOnce
  /\ carousels[1].totalSlides = 3
  /\ currentSlide = 2
  /\ carousels[1].cards = {2} /\ carousels[1].dots = {2}

\* C24: autoplay is paused on hover: a mouseenter on the section of a
\* carousel leaves no autoplay timer alive, and no click, key press or swipe
\* made while the pointer is inside it and no timer is alive brings one
\* back.
C24_PausedWhileHovering ==
  [][/\ (MouseEnter /\ displayed # 0) => intervals' = {}
     /\ (/\ hovering /\ intervals = {}
         /\ ClickPrevious \/ ClickNext \/ ClickDot \/ Swipe \/ KeyDown) =>
          intervals' = {}]_vars

\* C25: at most one autoplay interval timer is alive at any time, and one is
\* alive exactly when autoplayInterval is not null (it is that timer), after
\* any sequence of createCommentsCarousel, navigation, hovering and
\* destroyCarousel; after destroyCarousel none is alive and currentSlide
\* is 0.
C25_OneTimerAtMost ==
  [][/\ Cardinality(intervals') <= 1
     /\ intervals' # {} <=> ~autoplayInterval'.isNull
     /\ \A t \in intervals' : t.id = autoplayInterval'.value
     /\ DestroyCarousel => intervals' = {} /\ currentSlide' = 0]_vars

\* A second carousel was created while the timer of the first was alive, and
\* one timer is alive.
C25_Witness ==
  /\ Len(carousels) = 2
  /\ Cardinality(intervals) = 1
  /\ ~autoplayInterval.isNull
  /\ \E t \in intervals : t.carousel = 1

\* C26: whenever createCommentsCarousel has rendered a carousel, the autoplay
\* timer that is running advances the slides of that carousel, the one
\* rendered last, and when it has rendered the 'No comments available' card
\* no autoplay timer is running - also when it is called again without
\* destroyCarousel in between.
C26_TimerOfCarouselShown ==
  commentsSection # 0 =>
    /\ sections[commentsSection].content.kind = "carousel-card" =>
         \A t \in intervals : t.carousel = displayed
    /\ sections[commentsSection].content = noComments => intervals = {}

(***************************************************************************)
(* Specification SpecLink: init() of part_003 on a page opened with a link *)
(***************************************************************************)
\* The rows of the surveys behind a shared link, and the properties that
\* the object in the link can lack.
MaxLinkRows == 1
MaxMissing == 1

\* What reading a property that an object does not have yields.
undefined == [isUndefined |-> TRUE]
propertyOf(obj, name) == IF name \in DOMAIN obj THEN obj[name] ELSE undefined

\* What JSON.parse can return: null, a number, or an object.
jsonNull == [type |-> "null"]
jsonNumber == [type |-> "number"]
jsonObject(properties) == [type |-> "object", properties |-> properties]

\* The value of the parameter 'd', by what each decoding step makes of it:
\* atob (base-64), pako.inflate, JSON.parse.
emptyText == [empty |-> TRUE]
notBase64 == [empty |-> FALSE, base64 |-> FALSE]
notDeflated == [empty |-> FALSE, base64 |-> TRUE, binary |-> [deflate |-> FALSE]]
notJSON ==
  [empty |-> FALSE, base64 |-> TRUE,
   binary |-> [deflate |-> TRUE, string |-> [json |-> FALSE]]]
encoded(value) ==
  [empty |-> FALSE, base64 |-> TRUE,
   binary |-> [deflate |-> TRUE, string |-> [json |-> TRUE, value |-> value]]]

atob(text) ==
  IF text.base64 THEN return(text.binary) ELSE throw("InvalidCharacterError")
inflate(bytes) ==
  IF bytes.deflate THEN return(bytes.string) ELSE throw("incorrect header check")
JSONparse(string) ==
  IF string.json THEN return(string.value) ELSE throw("SyntaxError")

\* The properties of mini that expandMinifiedData reads a property of or
\* calls a method of: mini.pp.reduce, mini.f.reduce, mini.t.reduce,
\* mini.cp.reduce, mini.oa[0], mini.r.c, mini.w.map.
Dereferenced == {"pp", "f", "t", "cp", "oa", "r", "w"}
MiniProperties == {"p", "d", "r", "pp", "oa", "f", "t", "w", "cp", "cm"}

\* expandMinifiedData(minified) on what JSON.parse returned: a TypeError on
\* null, on a number and on an object without a property that is
\* dereferenced; a property only copied (p, d, cm) comes out undefined.
expanded(minified) ==
  IF minified.type # "object"
     \/ ~(Dereferenced \subseteq DOMAIN minified.properties)
  THEN throw("TypeError")
  ELSE const([name \in MiniProperties |->
                propertyOf(minified.properties, name)],
         LAMBDA mini : return(expandMinifiedData(mini)))

\* The try block of getSharedDataFromURL.
decodeShared(search) ==
  IF search.d.isNull \/ search.d.value.empty THEN return(nullValue)
  ELSE const(atob(search.d.value), LAMBDA binary :
         IF binary.threw THEN binary
         ELSE const(inflate(binary.value), LAMBDA decompressed :
                IF decompressed.threw THEN decompressed
                ELSE const(JSONparse(decompressed.value), LAMBDA minified :
                       IF minified.threw THEN minified
                       ELSE const(expanded(minified.value), LAMBDA data :
                              IF data.threw THEN data
                              ELSE return(object(data.value))))))

\* Mutant of getSharedDataFromURL: the error is not caught.
getSharedDataFromURLUncaught(search) == decodeShared(search)

\* getSharedDataFromURL(): the catch block returns null.
getSharedDataFromURL(search) ==
  const(decodeShared(search), LAMBDA attempt :
    IF attempt.threw THEN return(nullValue) ELSE attempt)

\* The listeners init registers: setupDragAndDrop on the drop zone, the
\* click on the sample button, the Ctrl/Cmd+Enter shortcut and the click on
\* the submit button of the modal.
Handlers ==
  {"handleDataLoaded", "loadSampleData", "keydown", "handlePizzaInfoSubmit"}

\* init(): DOMContentLoaded
init ==
  /\ page.init = "pending"
  /\ \E sharedData \in {getSharedDataFromURL(page.search)} :
         IF sharedData.threw
         THEN /\ page' = [page EXCEPT !.init = "threw"]
              /\ UNCHANGED <<currentProcessedData, currentPizzaInfo,
                             infographicSection, timers, carVars>>
         ELSE IF ~sharedData.value.isNull
         THEN /\ currentProcessedData' = sharedData.value
              /\ currentPizzaInfo' = sharedData.value.value.pizzaInfo
              /\ timers' = timers \o hideUploadSection
                             \o renderVisualizations(sharedData.value.value)
              /\ infographicSection' = showInfographic(sharedData.value.value)
              /\ sections' = rebuilt(sections)
              /\ hovering' = FALSE
              /\ page' = [page EXCEPT !.init = "returned"]
              /\ UNCHANGED <<currentSlide, autoplayInterval, carousels,
                             intervals>>
         ELSE /\ page' = [page EXCEPT !.init = "returned",
                                      !.listeners = Handlers]
              /\ UNCHANGED <<currentProcessedData, currentPizzaInfo,
                             infographicSection, timers, carVars>>
  /\ UNCHANGED <<uploadSection, modal, pendingRawData, errors, events>>

\* The surveys shared, processed and minified by the page that made the link.
LinkSurveys == UNION {SeqsOfLen(ShareResponses, n) : n \in 1..MaxLinkRows}

LinkMinis ==
  UNION {{minifyDataForSharing(
            withPizzaInfo(processData(array(rows), env).value, info)) :
            env \in {e \in Environments(array(rows)) : e.tz = "UTC"}} :
         rows \in LinkSurveys, info \in PizzaInfos}

\* The object of a link without some of its properties (a link made by
\* hand or cut short; comments are always there).
Lacking ==
  {missing \in SUBSET (MiniProperties \ {"cm"}) :
     Cardinality(missing) <= MaxMissing}

LinkObjects ==
  {jsonObject([name \in DOMAIN mini \ missing |-> mini[name]]) :
     mini \in LinkMinis, missing \in Lacking}

\* window.location.search: without the parameter 'd', or with a value.
Searches ==
  {[d |-> nullValue]}
    \cup {[d |-> object(text)] :
            text \in {emptyText, notBase64, notDeflated, notJSON}}
    \cup {[d |-> object(encoded(value))] :
            value \in {jsonNull, jsonNumber} \cup LinkObjects}

LinkInit ==
  /\ page \in [script : {"part_003"}, timeZone : {"UTC"},
               container : {"page"}, search : Searches, init : {"pending"},
               listeners : {{}}]
  /\ uploadSection = "" /\ modal = ""
  /\ infographicSection = NoInfographic
  /\ currentProcessedData = nullValue
  /\ currentPizzaInfo = nullValue
  /\ pendingRawData = nullData
  /\ timers = <<>> /\ errors = <<>> /\ events = 0
  /\ ColIdle /\ DocIdle /\ DataIdle /\ CarIdle

InitPage == init /\ AppFrame

LinkNext == InitPage \/ CreateChart \/ UploadSectionHidden

SpecLink == LinkInit /\ [][LinkNext]_vars

(***************************************************************************)
(* Claims on the page opened with a link                                   *)
(***************************************************************************)
\* The URL has no parameter 'd' (or an empty one).
NoParameter(search) == search.d.isNull \/ search.d.value.empty

\* The value of 'd' cannot be base64-decoded, inflated, parsed as JSON or
\* expanded: what was parsed is no object, or lacks a required property.
Undecodable(search) ==
  /\ ~NoParameter(search)
  /\ \/ ~search.d.value.base64
     \/ ~search.d.value.binary.deflate
     \/ ~search.d.value.binary.string.json
     \/ search.d.value.binary.string.value.type # "object"
     \/ \E name \in Dereferenced :
          name \notin DOMAIN search.d.value.binary.string.value.properties

\* The infographic shown is drawn from data: the banner and the eight chart
\* timers hold its parts.
ShowsInfographicOf(data) ==
  /\ infographicSection.visible
  /\ infographicSection.pizzaInfo = data.pizzaInfo
  /\ Len(chartTimers(timers)) = Len(ChartTimers)
  /\ \A i \in 1..Len(ChartTimers) :
       chartTimers(timers)[i].argument = data[ChartTimers[i].data]

\* C30: getSharedDataFromURL never throws: without a parameter 'd', or with
\* a value that cannot be base64-decoded, inflated, parsed or expanded (a
\* required minified property is missing), it returns null and init
\* registers the upload, sample-data and pizza-info handlers instead of
\* showing an infographic; when it returns data, init shows the infographic
\* of that data, and processData is not called.
C30_SharedLinkNeverThrows ==
  [][InitPage =>
       \A sharedData \in {getSharedDataFromURL(page.search)} :
           /\ ~sharedData.threw
           /\ page'.init = "returned"
           /\ (NoParameter(page.search) \/ Undecodable(page.search))
                <=> sharedData.value.isNull
           /\ sharedData.value.isNull =>
                /\ page'.listeners = Handlers
                /\ ~infographicSection'.visible
                /\ timers' = <<>>
                /\ currentProcessedData' = nullValue
           /\ ~sharedData.value.isNull =>
                /\ page'.listeners = {}
                /\ currentProcessedData' = sharedData.value
                /\ ShowsInfographicOf(sharedData.value.value)'
                /\ processed' = [done |-> FALSE]]_vars

\* A link whose object lacks the rating: init returned with the handlers
\* registered and no infographic.
C30_Witness ==
  /\ page.script = "part_003" /\ "init" \in DOMAIN page
  /\ page.init = "returned"
  /\ Undecodable(page.search)
  /\ page.search.d.value.base64
  /\ page.search.d.value.binary.deflate
  /\ page.search.d.value.binary.string.json
  /\ page.search.d.value.binary.string.value.type = "object"
  /\ "r" \notin DOMAIN page.search.d.value.binary.string.value.properties
  /\ page.listeners = Handlers
  /\ ~infographicSection.visible /\ timers = <<>>

====
